---- MODULE Spec2Model ----
(***************************************************************************)
(* Bot lifecycle controller (supabase/functions/bot-manager), the storage  *)
(* triggers of the migrations, and the heartbeat reconciler               *)
(* (supabase/functions/bot-heartbeat).                                     *)
(*                                                                         *)
(* Every request handler is a process.  One step of a handler is one       *)
(* awaited store operation together with the synchronous code that runs    *)
(* after it up to the next await.  Store reads always succeed; every store *)
(* write may fail (a storage error, or, for a dependent row, the foreign   *)
(* key when the bot row is gone).                                          *)
(*                                                                         *)
(* Usage numbers carry one decimal in the code; they are kept here in      *)
(* tenths (cpu 1.0 % is 10, memory 50 MB is 500).                          *)
(***************************************************************************)
EXTENDS Integers, Sequences, FiniteSets, TLC

\* ------------------------------------------------------------------ bounds
MaxRequests == 2       \* requests and sweeps issued in one run
MaxFailures == 1       \* store writes that fail in one run
MaxEnvLen == 2         \* longest envVars list of a deploy body
RandDen == 1000        \* Math.random() is drawn as k / RandDen
MaxSerial == 3         \* requests and sweeps issued in one run, one at a time
TickMs == 1500         \* the clock advances by this many milliseconds
MaxTime == 3000        \* the clock stops here
MaxMetrics == 1        \* resource-metrics requests issued in one run
MaxRows == 2           \* longest resource history a bot starts with

\* ------------------------------------------------------- program constants
max_bots == 3                 \* check_bot_limit: max_bots INTEGER := 3
AppBotLimit == 3              \* deploy: count >= 3
CpuCeiling == 10              \* validate_resource_limits: cpu_usage > 10
MemoryCeiling == 50           \* validate_resource_limits: memory_usage > 50
Scale == 10                   \* Math.round(x * 10) / 10: one decimal

NoBotId == 0                  \* body.botId absent or ""
UnknownBot == 99              \* an id no row ever had
NoContainer == 0              \* container_id IS NULL
NoTime == -1                  \* last_started_at IS NULL

Users == {"alice", "bob"}
\* the requests bot-manager serves at a time; a request takes the first free one
HandlerOrder == <<"h1", "h2">>
Handlers == {HandlerOrder[i] : i \in DOMAIN HandlerOrder}

Actions == {"deploy", "start", "stop", "restart", "delete", "status"}
BotActions == Actions \ {"deploy"}

\* ------------------------------------------------------------- simulator
\* Math.round(x) for x = num / den >= 0: floor(x + 1/2)
MathRound(num, den) == (2 * num + den) \div (2 * den)

\* the values Math.random() takes in the model: the least and the greatest
RandomDraws == {0, RandDen - 1}

\* cpu: Math.round((Math.random() * 8 + 1) * 10) / 10, in tenths
simulateCpu(k) == MathRound((k * 8 + RandDen) * Scale, RandDen)
\* memory: Math.round((Math.random() * 35 + 5) * 10) / 10, in tenths
simulateMemory(k) == MathRound((k * 35 + 5 * RandDen) * Scale, RandDen)

simulateResourceUsage(kc, km) == [cpu |-> simulateCpu(kc), memory |-> simulateMemory(km)]

\* the samples drawn: both draws the least, both the greatest
Samples == {simulateResourceUsage(k, k) : k \in RandomDraws}

\* ------------------------------------------------------- storage triggers
validate_resource_limits_NoClamp(row) == row
\* BEFORE INSERT OR UPDATE ON bots: clamp usage to the ceilings
validate_resource_limits(row) ==
    [row EXCEPT !.cpu_usage = IF @ > CpuCeiling * Scale THEN CpuCeiling * Scale ELSE @,
                !.memory_usage = IF @ > MemoryCeiling * Scale THEN MemoryCeiling * Scale ELSE @]

\* ------------------------------------------------------------------ state
VARIABLES
    bots,              \* table bots: id -> row, for the rows that exist
    bot_env_vars,      \* table bot_env_vars, per bot_id, in insertion order
    bot_logs,          \* table bot_logs, per bot_id, in insertion order
    resource_history,  \* table resource_history, per bot_id, in insertion order
    containerStates,   \* the process-local Map of bot-manager
    verified,          \* users whose email_confirmed_at is set
    handlers,          \* the bot-manager requests in flight, one per handler
    lastReply,         \* the request bot-manager answered last, and its Response
    hb,                \* the bot-heartbeat request in flight
    issued,            \* requests and sweeps received so far
    failures,          \* store writes that have failed so far
    nextBotId,         \* gen_random_uuid() for bots.id: the next unused id
    nextContainer,     \* crypto.randomUUID() of generateContainerId: next unused
    now,               \* the clock
    metrics            \* the resource-metrics request in flight, and its Response

store == <<bots, bot_env_vars, bot_logs, resource_history>>
vars == <<bots, bot_env_vars, bot_logs, resource_history, containerStates,
          verified, handlers, lastReply, hb, issued, failures, nextBotId, nextContainer, now,
          metrics>>

None == <<>>
Some(x) == <<x>>

\* a field of the JSON body that is absent; !x holds for it and for ""
Absent == "<absent>"
Falsy(x) == x \in {Absent, ""}

EnvPairs == [key : {"", "K"}, value : {"", "V"}]
RECURSIVE SeqsUpTo(_, _)
SeqsUpTo(S, n) ==
    IF n = 0 THEN {<<>>}
    ELSE LET shorter == SeqsUpTo(S, n - 1)
         IN shorter \cup {Append(s, x) : s \in {t \in shorter : Len(t) = n - 1}, x \in S}
EnvLists == SeqsUpTo(EnvPairs, MaxEnvLen)

\* body of a request: BotAction
NoBody == [name |-> Absent, platform |-> Absent, runtime |-> Absent, envVars |-> None]
ValidBody == [name |-> "Echo", platform |-> "telegram", runtime |-> "python", envVars |-> None]
DeployBodies ==
    {b \in [name : {Absent, "", "Echo"}, platform : {Absent, "telegram"},
            runtime : {Absent, "python"}, envVars : {None} \cup {Some(l) : l \in EnvLists}] :
        (Falsy(b.name) \/ Falsy(b.platform) \/ Falsy(b.runtime)) => b.envVars = None}

NoResources == [cpu |-> 0, memory |-> 0]
NoResponse == [status |-> 0, body |-> [pending |-> TRUE]]
Idle == [pc |-> "idle", action |-> "", user |-> "", botId |-> NoBotId, body |-> NoBody,
         containerId |-> NoContainer, resources |-> NoResources, startedAt |-> NoTime,
         bot |-> None]
NoReply == [n |-> 0, action |-> "", user |-> "", botId |-> NoBotId, body |-> NoBody,
            response |-> NoResponse]

\* the locals of a sweep: runningBots and the index of the bot of the loop,
\* now, the sample and the uptime of that bot, whether its update had no error,
\* the bots whose update had one, and the updates array
HbIdle == [pc |-> "idle", runningBots |-> <<>>, i |-> 0, now |-> NoTime,
           cur |-> NoResources, uptime |-> 0, updated |-> FALSE, failed |-> {},
           updates |-> <<>>, response |-> NoResponse]

\* no resource-metrics request in flight and none answered
MetricsIdle == [pc |-> "idle", n |-> 0, user |-> "", botId |-> NoBotId, hours |-> Absent,
                botIds |-> {},
                cutoff |-> 0, chartData |-> <<>>, response |-> NoResponse]

\* ------------------------------------------------------------- responses
Json(status, body) == [status |-> status, body |-> body]
EmailNotVerified == Json(403, [error |-> "Email not verified"])
MissingFields == Json(400, [error |-> "Missing required fields: name, platform, runtime"])
BotLimitReached == Json(400, [error |-> "Bot limit reached"])
MissingBotId == Json(400, [error |-> "Missing botId"])
AccessDenied == Json(403, [error |-> "Bot not found or access denied"])
StorageError(status, message) == Json(status, [error |-> message])
Success(fields) == Json(200, fields)

\* ----------------------------------------------------------------- store
OwnedBy(u) == {b \in DOMAIN bots : bots[b].user_id = u}

\* a store write fails or not; at most MaxFailures writes fail in a run
Outcomes == IF failures < MaxFailures THEN {TRUE, FALSE} ELSE {TRUE}
\* n writes sent one after the other: the set of those that fail
FailSets(n) == {F \in SUBSET (1..n) : Cardinality(F) <= MaxFailures - failures}

\* BEFORE INSERT ON bots: raises when the user already has max_bots rows.  The
\* count is the trigger's own SELECT: it sees the rows committed so far.
check_bot_limit(u) == Cardinality(OwnedBy(u)) >= max_bots

\* the row an INSERT INTO bots of deploy stores
NewBotRow(id, u, containerId) ==
    validate_resource_limits(
        [id |-> id, user_id |-> u, status |-> "offline", container_id |-> containerId,
         cpu_usage |-> 0, memory_usage |-> 0, uptime_seconds |-> 0,
         last_started_at |-> NoTime])

\* a row with the columns of .update({...}) set: the other columns stay
Assign(row, set) == [c \in DOMAIN row |-> IF c \in DOMAIN set THEN set[c] ELSE row[c]]

\* UPDATE bots SET ... WHERE id = b through the caller's client: the row-level
\* policy restricts it to the caller's rows; no matching row is no error
UpdateOwnBot(u, b, set) ==
    [x \in DOMAIN bots |->
        IF x = b /\ bots[x].user_id = u
        THEN validate_resource_limits(Assign(bots[x], set)) ELSE bots[x]]

\* UPDATE bots SET ... WHERE id = b through the service-role client
UpdateAnyBot(b, set) ==
    [x \in DOMAIN bots |->
        IF x = b THEN validate_resource_limits(Assign(bots[x], set)) ELSE bots[x]]

\* DELETE FROM bots WHERE id = b through the caller's client
DeleteOwnBot(u, b) ==
    [x \in {y \in DOMAIN bots : ~(y = b /\ bots[y].user_id = u)} |-> bots[x]]

\* ON DELETE CASCADE of bot_env_vars, bot_logs, resource_history
Cascade(table, remaining) == [b \in DOMAIN table |-> IF b \in remaining THEN table[b] ELSE <<>>]

Log(level, message) == [level |-> level, message |-> message]

Rows(pairs) == [i \in 1..Len(pairs) |-> pairs[i][2]]

addLogs_Replace(b, entries, F) ==
    IF b \in DOMAIN bots
    THEN [bot_logs EXCEPT ![b] = Rows(SelectSeq([i \in 1..Len(entries) |-> <<i, entries[i]>>],
                                                 LAMBDA p : p[1] \notin F))]
    ELSE bot_logs

\* addLog(id, level, message) for the logs a handler sends one after the other
\* through the service-role client; the foreign key needs the bot row; F: the
\* inserts that fail
addLogs(b, entries, F) ==
    IF b \in DOMAIN bots
    THEN [bot_logs EXCEPT ![b] = @ \o Rows(SelectSeq([i \in 1..Len(entries) |-> <<i, entries[i]>>],
                                                      LAMBDA p : p[1] \notin F))]
    ELSE bot_logs

recordResources_NoForeignKey(b, cpu, memory, ok) ==
    IF ok
    THEN [resource_history EXCEPT
            ![b] = Append(@, [cpu_usage |-> cpu, memory_usage |-> memory, recorded_at |-> now])]
    ELSE resource_history

\* recordResources(id, cpu, memory)
recordResources(b, cpu, memory, ok) ==
    IF ok /\ b \in DOMAIN bots
    THEN [resource_history EXCEPT
            ![b] = Append(@, [cpu_usage |-> cpu, memory_usage |-> memory, recorded_at |-> now])]
    ELSE resource_history

Running(req) ==
    [containerId |-> req.containerId, status |-> "running", startedAt |-> req.startedAt,
     cpuUsage |-> req.resources.cpu, memoryUsage |-> req.resources.memory]

MapSet(map, k, v) == [x \in DOMAIN map \cup {k} |-> IF x = k THEN v ELSE map[x]]
MapDelete_Clear(map, k) == <<>>
MapDelete(map, k) == [x \in DOMAIN map \ {k} |-> map[x]]

\* the columns start and restart set, last_started_at being new Date() of the
\* update, and those stop sets
Started_NoUsage(req, t) ==
    [status |-> "online", container_id |-> req.containerId, last_started_at |-> t]

Started_Deploying(req, t) ==
    [status |-> "deploying", container_id |-> req.containerId,
     last_started_at |-> t, cpu_usage |-> req.resources.cpu,
     memory_usage |-> req.resources.memory]

Started(req, t) ==
    [status |-> "online", container_id |-> req.containerId,
     last_started_at |-> t, cpu_usage |-> req.resources.cpu,
     memory_usage |-> req.resources.memory]

Stopped_UsageOnly == [cpu_usage |-> 0, memory_usage |-> 0]
Stopped_KeepUsage == [status |-> "stopped"]
Stopped == [status |-> "stopped", cpu_usage |-> 0, memory_usage |-> 0]

\* ------------------------------------------------------------------- init
\* The store as earlier requests left it.  alice, verified, has deployed
\* bots 1 and 2 and started bot 2.  bob, not verified, holds three rows that
\* came in through the client's own insert, which the row-level policy of bots
\* allows (status offline, the defaults of the table for the rest).
InitialOwner == <<"alice", "alice", "bob", "bob", "bob">>
InitialBots == 1..Len(InitialOwner)
BotIds == 1..(Len(InitialOwner) + MaxRequests)
InitialSample == simulateResourceUsage(0, 0)
InitialStart == [Idle EXCEPT !.containerId = 3, !.resources = InitialSample, !.startedAt = 0]

Init ==
    /\ bots = [b \in InitialBots |->
                 IF b = 2 THEN Assign(NewBotRow(b, "alice", b), Started(InitialStart, 0))
                 ELSE NewBotRow(b, InitialOwner[b],
                                IF InitialOwner[b] = "alice" THEN b ELSE NoContainer)]
    /\ bot_env_vars = [b \in BotIds |-> <<>>]
    /\ bot_logs = [b \in BotIds |->
                     IF b \in InitialBots /\ InitialOwner[b] = "alice"
                     THEN <<Log("info", "Bot created with container"),
                            Log("info", "Runtime, Platform")>>
                          \o (IF b = 2
                              THEN <<Log("info", "Bot started successfully"),
                                     Log("info", "Container is running"),
                                     Log("debug", "Resources allocated")>>
                              ELSE <<>>)
                     ELSE <<>>]
    /\ resource_history = [b \in BotIds |->
                             IF b = 2
                             THEN <<[cpu_usage |-> InitialSample.cpu,
                                     memory_usage |-> InitialSample.memory,
                                     recorded_at |-> 0]>>
                             ELSE <<>>]
    /\ containerStates = MapSet(<<>>, 2, Running(InitialStart))
    /\ verified = {"alice"}
    /\ handlers = [h \in Handlers |-> Idle]
    /\ lastReply = NoReply
    /\ hb = HbIdle
    /\ issued = 0
    /\ failures = 0
    /\ nextBotId = Len(InitialOwner) + 1
    /\ nextContainer = 4
    /\ now = 0
    /\ metrics = MetricsIdle

\* ------------------------------------------------------- handler plumbing
At(h, pc) == handlers[h].pc = pc

Goto(h, pc) == handlers' = [handlers EXCEPT ![h].pc = pc] /\ UNCHANGED lastReply

\* the handler returns its Response, the n-th of bot-manager; its locals are gone
Reply(req, response) ==
    [n |-> lastReply.n + 1, action |-> req.action, user |-> req.user, botId |-> req.botId,
     body |-> [req.body EXCEPT !.envVars = None], response |-> response]

Answer(h, req, response) ==
    /\ handlers' = [handlers EXCEPT ![h] = Idle]
    /\ lastReply' = Reply(req, response)

Respond(h, response) == Answer(h, handlers[h], response)

Continue(h, req) == handlers' = [handlers EXCEPT ![h] = req] /\ UNCHANGED lastReply

Fail(n) == failures' = failures + n

EarlyReturn_ValidateFirst(u, action, botId, body) ==
    IF action = "deploy" /\ (Falsy(body.name) \/ Falsy(body.platform) \/ Falsy(body.runtime))
    THEN Some(MissingFields)
    ELSE IF action # "deploy" /\ botId = NoBotId THEN Some(MissingBotId)
    ELSE IF u \notin verified THEN Some(EmailNotVerified)
    ELSE None
EarlyReturn_NoRuntime(u, action, botId, body) ==
    IF u \notin verified THEN Some(EmailNotVerified)
    ELSE IF action = "deploy" /\ (Falsy(body.name) \/ Falsy(body.platform))
    THEN Some(MissingFields)
    ELSE IF action # "deploy" /\ botId = NoBotId THEN Some(MissingBotId)
    ELSE None
\* what serve() answers before its first store operation, if anything: the
\* email check, then the required fields of the action
EarlyReturn(u, action, botId, body) ==
    IF u \notin verified THEN Some(EmailNotVerified)
    ELSE IF action = "deploy" /\ (Falsy(body.name) \/ Falsy(body.platform) \/ Falsy(body.runtime))
    THEN Some(MissingFields)
    ELSE IF action # "deploy" /\ botId = NoBotId THEN Some(MissingBotId)
    ELSE None

AtBotLimit_Off(count) == count > AppBotLimit
\* deploy: count !== null && count >= 3
AtBotLimit(count) == count >= AppBotLimit

\* SELECT ... FROM bots WHERE id = $1 through the caller's client, .single():
\* no row, or a row the policy "Users can view their own bots" hides, is null
SelectOwnBot(u, id) ==
    IF id \in DOMAIN bots /\ bots[id].user_id = u THEN Some(bots[id]) ELSE None

verifyBotOwnership_Always(u, id) == TRUE
verifyBotOwnership_AnyOwner(u, id) == id \in DOMAIN bots
\* bot?.user_id === user.id
verifyBotOwnership(u, id) ==
    LET bot == SelectOwnBot(u, id) IN bot # None /\ bot[1].user_id = u

\* serve() up to the end of the first store read of the action, and the
\* synchronous code after that read up to the next await
Receive(h, requests, limit) ==
    /\ handlers[h].pc = "idle"
    /\ \A i, j \in DOMAIN HandlerOrder :
          (HandlerOrder[j] = h /\ i < j) => handlers[HandlerOrder[i]].pc # "idle"
    /\ issued < limit
    /\ issued' = issued + 1
    /\ \E r \in requests :
        LET req == [Idle EXCEPT !.action = r.action, !.user = r.user, !.botId = r.botId,
                                !.body = r.body]
            early == EarlyReturn(r.user, r.action, r.botId, r.body)
        IN IF early # None
           THEN /\ Answer(h, req, early[1])
                /\ UNCHANGED <<containerStates, nextContainer>>
           ELSE IF r.action = "deploy"
           THEN \* the advisory check, then generateContainerId()
                IF AtBotLimit(Cardinality(OwnedBy(r.user)))
                THEN /\ Answer(h, req, BotLimitReached)
                     /\ UNCHANGED <<containerStates, nextContainer>>
                ELSE /\ Continue(h, [req EXCEPT !.pc = "deploy_insert",
                                                !.containerId = nextContainer])
                     /\ nextContainer' = nextContainer + 1
                     /\ UNCHANGED containerStates
           ELSE IF ~verifyBotOwnership(r.user, r.botId)
           THEN /\ Answer(h, req, AccessDenied)
                /\ UNCHANGED <<containerStates, nextContainer>>
           ELSE CASE r.action = "start" ->
                     \E res \in Samples :
                        LET started == [req EXCEPT !.pc = "start_update", !.resources = res,
                                                   !.containerId = nextContainer,
                                                   !.startedAt = now]
                        IN /\ Continue(h, started)
                           /\ containerStates' = MapSet(containerStates, r.botId, Running(started))
                           /\ nextContainer' = nextContainer + 1
                  [] r.action \in {"stop", "delete"} ->
                     /\ Continue(h, [req EXCEPT !.pc = IF r.action = "stop" THEN "stop_update"
                                                       ELSE "delete_row"])
                     /\ containerStates' = MapDelete(containerStates, r.botId)
                     /\ UNCHANGED nextContainer
                  [] r.action = "restart" ->
                     /\ Continue(h, [req EXCEPT !.pc = "restart_log"])
                     /\ UNCHANGED <<containerStates, nextContainer>>
                  [] r.action = "status" ->
                     /\ Continue(h, [req EXCEPT !.pc = "status_read"])
                     /\ UNCHANGED <<containerStates, nextContainer>>
    /\ UNCHANGED <<store, verified, metrics, hb, failures, nextBotId, now>>

\* ----------------------------------------------------------------- deploy
\* the INSERT runs its BEFORE INSERT triggers in its own transaction
DeployInsert(h) ==
    /\ At(h, "deploy_insert")
    /\ \E ok \in Outcomes :
          IF ~ok THEN Respond(h, StorageError(400, "insert failed")) /\ Fail(1)
          ELSE /\ Fail(0)
               /\ IF check_bot_limit(handlers[h].user)
                  THEN Respond(h, StorageError(400, "Bot limit exceeded"))
                  ELSE Goto(h, "deploy_commit")
    /\ UNCHANGED <<store, containerStates, verified, metrics, hb, issued, nextBotId, nextContainer, now>>

\* the inserting transaction commits: the row is visible and .select().single()
\* returns it
DeployCommit(h) ==
    /\ At(h, "deploy_commit")
    /\ LET row == NewBotRow(nextBotId, handlers[h].user, handlers[h].containerId)
       IN /\ bots' = MapSet(bots, nextBotId, row)
          /\ Continue(h, [handlers[h] EXCEPT !.bot = Some(row), !.botId = nextBotId,
                                              !.pc = "deploy_tail"])
    /\ nextBotId' = nextBotId + 1
    /\ UNCHANGED <<bot_env_vars, bot_logs, resource_history, containerStates, verified, metrics, hb,
                   issued, failures, nextContainer, now>>

\* envVars.filter(ev => ev.key && ev.value)
envVarsToInsert(envVars) ==
    IF envVars = None THEN <<>>
    ELSE SelectSeq(envVars[1], LAMBDA ev : ev.key # "" /\ ev.value # "")

\* bot_env_vars.insert(envVarsToInsert) when there are any, then the two
\* addLog; no result is read; then the response
DeployTail(h) ==
    /\ At(h, "deploy_tail")
    /\ LET b == handlers[h].botId
           toInsert == envVarsToInsert(handlers[h].body.envVars)
       IN \E F \in FailSets(3) :
            /\ (toInsert = <<>>) => (1 \notin F)
            /\ bot_env_vars' =
                  IF toInsert # <<>> /\ 1 \notin F /\ b \in DOMAIN bots
                  THEN [bot_env_vars EXCEPT ![b] = @ \o toInsert]
                  ELSE bot_env_vars
            /\ bot_logs' = addLogs(b, <<Log("info", "Bot created with container"),
                                        Log("info", "Runtime, Platform")>>,
                                   {i - 1 : i \in F \ {1}})
            /\ Fail(Cardinality(F))
    /\ Respond(h, Success([success |-> TRUE, bot |-> handlers[h].bot]))
    /\ UNCHANGED <<bots, resource_history, containerStates, verified, metrics, hb, issued,
                   nextBotId, nextContainer, now>>

\* --------------------------------------------------- start, stop, restart
\* start: UPDATE bots SET status = 'online', ...; an error is returned
StartUpdate(h) ==
    /\ At(h, "start_update")
    /\ \E ok \in Outcomes :
          IF ~ok THEN Respond(h, StorageError(500, "update failed")) /\ Fail(1) /\ UNCHANGED bots
          ELSE /\ Fail(0)
               /\ bots' = UpdateOwnBot(handlers[h].user, handlers[h].botId,
                                       Started(handlers[h], now))
               /\ Goto(h, "start_tail")
    /\ UNCHANGED <<bot_env_vars, bot_logs, resource_history, containerStates, verified, metrics, hb,
                   issued, nextBotId, nextContainer, now>>

\* start: three addLog and recordResources, then the response
StartTail(h) ==
    /\ At(h, "start_tail")
    /\ LET req == handlers[h]
       IN /\ \E F \in FailSets(4) :
               /\ bot_logs' = addLogs(req.botId,
                                 <<Log("info", "Bot started successfully"),
                                   Log("info", "Container is running"),
                                   Log("debug", "Resources allocated")>>, F)
               /\ resource_history' = recordResources(req.botId, req.resources.cpu,
                                                      req.resources.memory, 4 \notin F)
               /\ Fail(Cardinality(F))
          /\ Respond(h, Success([success |-> TRUE, status |-> "online",
                                 containerId |-> req.containerId,
                                 resources |-> req.resources]))
    /\ UNCHANGED <<bots, bot_env_vars, containerStates, verified, metrics, hb, issued, nextBotId,
                   nextContainer, now>>

\* stop: UPDATE bots SET status = 'stopped', cpu_usage = 0, memory_usage = 0
StopUpdate(h) ==
    /\ At(h, "stop_update")
    /\ \E ok \in Outcomes :
          IF ~ok THEN Respond(h, StorageError(500, "update failed")) /\ Fail(1) /\ UNCHANGED bots
          ELSE /\ Fail(0)
               /\ bots' = UpdateOwnBot(handlers[h].user, handlers[h].botId, Stopped)
               /\ Goto(h, "stop_tail")
    /\ UNCHANGED <<bot_env_vars, bot_logs, resource_history, containerStates, verified, metrics, hb,
                   issued, nextBotId, nextContainer, now>>

\* stop: two addLog, then the response
StopTail(h) ==
    /\ At(h, "stop_tail")
    /\ \E F \in FailSets(2) :
          /\ bot_logs' = addLogs(handlers[h].botId,
                                 <<Log("info", "Bot stopped"),
                                   Log("info", "Container terminated gracefully")>>, F)
          /\ Fail(Cardinality(F))
    /\ Respond(h, Success([success |-> TRUE, status |-> "stopped"]))
    /\ UNCHANGED <<bots, bot_env_vars, resource_history, containerStates, verified, metrics, hb,
                   issued, nextBotId, nextContainer, now>>

\* restart: addLog("Restarting bot..."), then simulateResourceUsage() and
\* generateContainerId(); containerStates is not touched
RestartLog(h) ==
    /\ At(h, "restart_log")
    /\ \E F \in FailSets(1) :
          /\ bot_logs' = addLogs(handlers[h].botId, <<Log("info", "Restarting bot...")>>, F)
          /\ Fail(Cardinality(F))
    /\ \E res \in Samples :
          Continue(h, [handlers[h] EXCEPT !.pc = "restart_update", !.resources = res,
                                          !.containerId = nextContainer, !.startedAt = now])
    /\ nextContainer' = nextContainer + 1
    /\ UNCHANGED <<bots, bot_env_vars, resource_history, containerStates, verified, metrics, hb,
                   issued, nextBotId, now>>

\* restart: UPDATE bots SET status = 'online', ...; an error is returned
RestartUpdate(h) ==
    /\ At(h, "restart_update")
    /\ \E ok \in Outcomes :
          IF ~ok THEN Respond(h, StorageError(500, "update failed")) /\ Fail(1) /\ UNCHANGED bots
          ELSE /\ Fail(0)
               /\ bots' = UpdateOwnBot(handlers[h].user, handlers[h].botId,
                                       Started(handlers[h], now))
               /\ Goto(h, "restart_tail")
    /\ UNCHANGED <<bot_env_vars, bot_logs, resource_history, containerStates, verified, metrics, hb,
                   issued, nextBotId, nextContainer, now>>

\* restart: two addLog and recordResources, then the response
RestartTail(h) ==
    /\ At(h, "restart_tail")
    /\ LET req == handlers[h]
       IN /\ \E F \in FailSets(3) :
               /\ bot_logs' = addLogs(req.botId,
                                 <<Log("info", "Bot restarted successfully"),
                                   Log("info", "New container is running")>>, F)
               /\ resource_history' = recordResources(req.botId, req.resources.cpu,
                                                      req.resources.memory, 3 \notin F)
               /\ Fail(Cardinality(F))
          /\ Respond(h, Success([success |-> TRUE, status |-> "online",
                                 containerId |-> req.containerId,
                                 resources |-> req.resources]))
    /\ UNCHANGED <<bots, bot_env_vars, containerStates, verified, metrics, hb, issued, nextBotId,
                   nextContainer, now>>

\* ---------------------------------------------------------- delete, status
\* delete: DELETE FROM bots WHERE id = botId; the dependent rows cascade
DeleteRow(h) ==
    /\ At(h, "delete_row")
    /\ \E ok \in Outcomes :
          IF ~ok
          THEN /\ Respond(h, StorageError(500, "delete failed")) /\ Fail(1)
               /\ UNCHANGED store
          ELSE /\ Fail(0)
               /\ bots' = DeleteOwnBot(handlers[h].user, handlers[h].botId)
               /\ bot_env_vars' = Cascade(bot_env_vars, DOMAIN bots')
               /\ bot_logs' = Cascade(bot_logs, DOMAIN bots')
               /\ resource_history' = Cascade(resource_history, DOMAIN bots')
               /\ Respond(h, Success([success |-> TRUE, message |-> "Bot deleted successfully"]))
    /\ UNCHANGED <<containerStates, verified, metrics, hb, issued, nextBotId, nextContainer, now>>

isOnline_Registry(bot) == bot # None /\ bot[1].id \in DOMAIN containerStates

\* bot?.status === "online"
isOnline(bot) == bot # None /\ bot[1].status = "online"

\* status: SELECT * FROM bots WHERE id = botId, .single(); for an online row
\* simulateResourceUsage(), else the response
StatusRead(h) ==
    /\ At(h, "status_read")
    /\ LET req == handlers[h]
           bot == SelectOwnBot(req.user, req.botId)
       IN IF isOnline(bot)
          THEN \E res \in Samples :
                  Continue(h, [handlers[h] EXCEPT !.pc = "status_update", !.bot = bot,
                                                  !.resources = res])
          ELSE Respond(h, Success([success |-> TRUE, bot |-> bot]))
    /\ UNCHANGED <<store, containerStates, verified, metrics, hb, issued, failures, nextBotId,
                   nextContainer, now>>

\* the columns status sets, spread over the row read in its response
Resampled(res) == [cpu_usage |-> res.cpu, memory_usage |-> res.memory]

\* status: UPDATE bots SET cpu_usage, memory_usage; the result is not read
StatusUpdate(h) ==
    /\ At(h, "status_update")
    /\ \E ok \in Outcomes :
          /\ bots' = IF ok
                     THEN UpdateOwnBot(handlers[h].user, handlers[h].botId,
                                       Resampled(handlers[h].resources))
                     ELSE bots
          /\ Fail(IF ok THEN 0 ELSE 1)
    /\ Goto(h, "status_record")
    /\ UNCHANGED <<bot_env_vars, bot_logs, resource_history, containerStates, verified, metrics, hb,
                   issued, nextBotId, nextContainer, now>>

\* status: recordResources, then the response with the row read and the sample
StatusRecord(h) ==
    /\ At(h, "status_record")
    /\ LET req == handlers[h]
       IN /\ \E ok \in Outcomes :
               /\ resource_history' = recordResources(req.botId, req.resources.cpu,
                                                      req.resources.memory, ok)
               /\ Fail(IF ok THEN 0 ELSE 1)
          /\ Respond(h, Success([success |-> TRUE,
                                 bot |-> Some(Assign(req.bot[1], Resampled(req.resources)))]))
    /\ UNCHANGED <<bots, bot_env_vars, bot_logs, containerStates, verified, metrics, hb, issued,
                   nextBotId, nextContainer, now>>

\* -------------------------------------------------------------- heartbeat
MsPerSecond == 1000

uptimeSeconds_Rounded(t, last_started_at) ==
    LET startedAt == IF last_started_at = NoTime THEN t ELSE last_started_at
    IN (2 * (t - startedAt) + MsPerSecond) \div (2 * MsPerSecond)

\* Math.floor((now.getTime() - startedAt.getTime()) / 1000), startedAt being
\* now when last_started_at is null
uptimeSeconds(t, last_started_at) ==
    LET startedAt == IF last_started_at = NoTime THEN t ELSE last_started_at
    IN (t - startedAt) \div MsPerSecond

Orders(S) == {q \in [1..Cardinality(S) -> S] : \A i, j \in DOMAIN q : q[i] = q[j] => i = j}

logMessages == <<Log("info", "Processing incoming message..."),
                 Log("debug", "Heartbeat check passed"),
                 Log("info", "Webhook delivered successfully"),
                 Log("info", "User command processed"),
                 Log("debug", "Memory usage")>>

\* SELECT id, name, user_id, last_started_at FROM bots WHERE status = 'online'
\* through the service-role client, in the order the store returns the rows;
\* then now = new Date()
Fetch(limit) ==
    /\ hb.pc = "idle"
    /\ issued < limit
    /\ issued' = issued + 1
    /\ \E q \in Orders({b \in DOMAIN bots : bots[b].status = "online"}) :
          hb' = IF q = <<>>
                THEN [HbIdle EXCEPT !.response = Success([success |-> TRUE, botsUpdated |-> 0,
                                                          updates |-> <<>>])]
                ELSE [HbIdle EXCEPT
                        !.pc = "update", !.now = now, !.i = 1,
                        !.runningBots = [k \in DOMAIN q |->
                                           [id |-> q[k],
                                            last_started_at |-> bots[q[k]].last_started_at]]]
    /\ UNCHANGED <<store, containerStates, verified, metrics, handlers, lastReply, failures,
                   nextBotId, nextContainer, now>>

HbFetch == Fetch(MaxRequests)

\* one bot of the loop: the sample, the uptime, UPDATE bots SET cpu_usage,
\* memory_usage, uptime_seconds WHERE id = bot.id
HbUpdate ==
    /\ hb.pc = "update"
    /\ LET bot == hb.runningBots[hb.i]
           uptime == uptimeSeconds(hb.now, bot.last_started_at)
       IN \E res \in Samples, ok \in Outcomes :
            /\ bots' = IF ok
                       THEN UpdateAnyBot(bot.id,
                              [cpu_usage |-> res.cpu, memory_usage |-> res.memory,
                               uptime_seconds |-> uptime])
                       ELSE bots
            /\ Fail(IF ok THEN 0 ELSE 1)
            /\ hb' = [hb EXCEPT !.pc = "tail", !.cur = res, !.uptime = uptime,
                                !.updated = ok,
                                !.failed = IF ok THEN @ ELSE @ \cup {bot.id}]
    /\ UNCHANGED <<bot_env_vars, bot_logs, resource_history, containerStates, verified, metrics,
                   handlers, lastReply, issued, nextBotId, nextContainer, now>>

PushUpdate_Always(updates, updated, entry) == Append(updates, entry)

\* if (!updateError) { ...; updates.push({...}) }
PushUpdate(updates, updated, entry) == IF updated THEN Append(updates, entry) ELSE updates

\* the rest of the loop body: without an update error the resource_history
\* insert and updates.push; when Math.random() > 0.7 a bot_logs insert; after
\* the last bot the response
HbTail ==
    /\ hb.pc = "tail"
    /\ LET bot == hb.runningBots[hb.i]
       IN \E F \in FailSets(2), r1 \in RandomDraws, r2 \in RandomDraws :
            LET wantLog == r1 * 10 > 7 * RandDen
                randomLog == logMessages[((r2 * Len(logMessages)) \div RandDen) + 1]
                updates == PushUpdate(hb.updates, hb.updated,
                                      [botId |-> bot.id, cpu |-> hb.cur.cpu,
                                       memory |-> hb.cur.memory, uptime |-> hb.uptime])
            IN /\ (1 \in F) => hb.updated
               /\ (2 \in F) => wantLog
               /\ resource_history' =
                     IF hb.updated
                     THEN recordResources(bot.id, hb.cur.cpu, hb.cur.memory, 1 \notin F)
                     ELSE resource_history
               /\ bot_logs' = IF wantLog /\ 2 \notin F
                              THEN addLogs(bot.id, <<randomLog>>, {})
                              ELSE bot_logs
               /\ Fail(Cardinality(F))
               /\ hb' = IF hb.i = Len(hb.runningBots)
                        THEN [HbIdle EXCEPT !.response =
                                 Success([success |-> TRUE, botsUpdated |-> Len(updates),
                                          updates |-> updates])]
                        ELSE [hb EXCEPT !.pc = "update", !.i = @ + 1,
                                        !.updates = updates, !.cur = NoResources,
                                        !.uptime = 0, !.updated = FALSE]
    /\ UNCHANGED <<bots, bot_env_vars, containerStates, verified, metrics, handlers, lastReply,
                   issued, nextBotId, nextContainer, now>>

\* the clock
Tick ==
    /\ now < MaxTime
    /\ now' = now + TickMs
    /\ UNCHANGED <<store, containerStates, verified, metrics, handlers, lastReply, hb, issued,
                   failures, nextBotId, nextContainer>>

\* ------------------------------------------------------- resource-metrics
HourMs == 3600000

\* the callers of resource-metrics: carol has an account and no bot
MetricsUsers == Users \cup {"carol"}

\* parseInt of the strings the hours parameter takes here; None is NaN
parseInt(str) ==
    CASE str = "1" -> Some(1)
      [] str = "24" -> Some(24)
      [] OTHER -> None

\* parseInt(url.searchParams.get("hours") || "24")
WindowHours(param) == parseInt(IF Falsy(param) THEN "24" ELSE param)

VisibleBots_All(u) == DOMAIN bots

\* SELECT ... FROM bots through the caller's client: the rows of the caller
VisibleBots(u) == {b \in DOMAIN bots : bots[b].user_id = u}

SelectHistory_NoCutoff(u, botIds, cutoff) ==
    UNION {{[bot_id |-> b, row |-> i, cpu_usage |-> resource_history[b][i].cpu_usage,
             memory_usage |-> resource_history[b][i].memory_usage,
             recorded_at |-> resource_history[b][i].recorded_at] :
               i \in DOMAIN resource_history[b]} :
           b \in botIds \cap VisibleBots(u)}

\* SELECT * FROM resource_history WHERE bot_id IN botIds AND recorded_at >=
\* cutoff through the caller's client: the rows of the caller's bots
SelectHistory(u, botIds, cutoff) ==
    UNION {{[bot_id |-> b, row |-> i, cpu_usage |-> resource_history[b][i].cpu_usage,
             memory_usage |-> resource_history[b][i].memory_usage,
             recorded_at |-> resource_history[b][i].recorded_at] :
               i \in {k \in DOMAIN resource_history[b] :
                         resource_history[b][k].recorded_at >= cutoff}} :
           b \in botIds \cap VisibleBots(u)}

\* .order("recorded_at", { ascending: true })
RECURSIVE OrderByRecordedAt(_)
OrderByRecordedAt(rows) ==
    IF rows = {} THEN <<>>
    ELSE LET first == CHOOSE r \in rows : \A x \in rows : r.recorded_at <= x.recorded_at
         IN <<first>> \o OrderByRecordedAt(rows \ {first})

\* new Date(recorded_at).toISOString().slice(0, 13): the UTC hour of the row
HourOf(recorded_at) == recorded_at \div HourMs

\* the loop over history: hourlyMetrics as the list of its entries in the
\* order the keys were inserted
RECURSIVE Aggregate(_, _)
Aggregate(history, hourlyMetrics) ==
    IF history = <<>> THEN hourlyMetrics
    ELSE LET record == Head(history)
             hour == HourOf(record.recorded_at)
             known == {k \in DOMAIN hourlyMetrics : hourlyMetrics[k].hour = hour}
             next == IF known = {}
                     THEN Append(hourlyMetrics,
                                 [hour |-> hour, cpu |-> <<record.cpu_usage>>,
                                  memory |-> <<record.memory_usage>>, count |-> 1])
                     ELSE [k \in DOMAIN hourlyMetrics |->
                             IF k \in known
                             THEN [hourlyMetrics[k] EXCEPT
                                      !.cpu = Append(@, record.cpu_usage),
                                      !.memory = Append(@, record.memory_usage),
                                      !.count = @ + 1]
                             ELSE hourlyMetrics[k]]
         IN Aggregate(Tail(history), next)

\* data.cpu.reduce((a, b) => a + b, 0)
RECURSIVE Reduce(_)
Reduce(values) == IF values = <<>> THEN 0 ELSE Head(values) + Reduce(Tail(values))

\* Object.entries(hourlyMetrics).map(...): the label of the hour and the means,
\* Math.round(sum / count * 10) / 10, in tenths
ChartData(hourlyMetrics) ==
    [k \in DOMAIN hourlyMetrics |->
        [time |-> hourlyMetrics[k].hour % 24,
         cpu |-> MathRound(Reduce(hourlyMetrics[k].cpu), hourlyMetrics[k].count),
         memory |-> MathRound(Reduce(hourlyMetrics[k].memory), hourlyMetrics[k].count)]]

\* currentBots.reduce((sum, b) => sum + (b[column] || 0), 0)
RECURSIVE Total(_, _)
Total(rows, column) ==
    IF rows = {} THEN 0
    ELSE LET b == CHOOSE r \in rows : TRUE IN b[column] + Total(rows \ {b}, column)

\* the stats object
Stats(currentBots) ==
    [totalBots |-> Cardinality(currentBots),
     runningBots |-> Cardinality({b \in currentBots : b.status = "online"}),
     totalCpu |-> Total(currentBots, "cpu_usage"),
     totalMemory |-> Total(currentBots, "memory_usage"),
     maxBots |-> 3, maxCpuPerBot |-> 10, maxMemoryPerBot |-> 50]

MetricsRequest(u, botId, hours) == [user |-> u, botId |-> botId, hours |-> hours]

MetricsAnswer(r, response) ==
    [MetricsIdle EXCEPT !.n = metrics.n + 1, !.user = r.user, !.botId = r.botId,
                        !.hours = r.hours, !.response = response]

\* serve() of resource-metrics up to the history query: the caller's bots,
\* the bot ids selected, the ownership of a bot id given, the cutoff time
GetMetrics(requests, limit) ==
    /\ metrics.pc = "idle"
    /\ metrics.n < limit
    /\ \E r \in requests :
          LET userBots == VisibleBots(r.user)
              botIds == IF r.botId # NoBotId THEN {r.botId} ELSE userBots
              hours == WindowHours(r.hours)
          IN metrics' =
                IF userBots = {}
                THEN MetricsAnswer(r, Success([success |-> TRUE, metrics |-> <<>>]))
                ELSE IF r.botId # NoBotId /\ r.botId \notin userBots
                THEN MetricsAnswer(r, AccessDenied)
                ELSE IF hours = None
                THEN \* toISOString() of an invalid Date throws; the catch answers
                     MetricsAnswer(r, StorageError(500, "Internal server error"))
                ELSE [MetricsAnswer(r, NoResponse) EXCEPT
                         !.pc = "history", !.botIds = botIds,
                         !.cutoff = now - hours[1] * HourMs]
    /\ UNCHANGED <<store, containerStates, verified, handlers, lastReply, hb, issued,
                   failures, nextBotId, nextContainer, now>>

\* the history query, the aggregation by hour and chartData
MetricsHistory ==
    /\ metrics.pc = "history"
    /\ LET history == OrderByRecordedAt(SelectHistory(metrics.user, metrics.botIds,
                                                     metrics.cutoff))
       IN metrics' = [metrics EXCEPT !.pc = "stats",
                                     !.chartData = ChartData(Aggregate(history, <<>>))]
    /\ UNCHANGED <<store, containerStates, verified, handlers, lastReply, hb, issued,
                   failures, nextBotId, nextContainer, now>>

\* SELECT * FROM bots WHERE id IN botIds, the stats and the response
MetricsStats ==
    /\ metrics.pc = "stats"
    /\ LET currentBots == {bots[b] : b \in metrics.botIds \cap VisibleBots(metrics.user)}
       IN metrics' = [metrics EXCEPT
                         !.pc = "idle",
                         !.response = Success([success |-> TRUE,
                                               chartData |-> metrics.chartData,
                                               stats |-> Stats(currentBots),
                                               bots |-> currentBots])]
    /\ UNCHANGED <<store, containerStates, verified, handlers, lastReply, hb, issued,
                   failures, nextBotId, nextContainer, now>>

\* ---------------------------------------------------------- specifications
Request(u, action, botId, body) ==
    [user |-> u, action |-> action, botId |-> botId, body |-> body]

\* the lifecycle requests: every action of alice on no bot, an unknown bot, her
\* bots 1 and 2 and bob's bot 3, every action of bob on no bot, alice's bot 1
\* and his bot 3, and deploys of both with and without the required fields
LifecycleRequests ==
    {Request("alice", a, id, NoBody) : a \in BotActions, id \in {NoBotId, UnknownBot, 1, 2, 3}}
    \cup {Request("bob", a, id, NoBody) : a \in BotActions, id \in {NoBotId, 1, 3}}
    \cup {Request(u, "deploy", NoBotId, b) : u \in Users, b \in {ValidBody, NoBody}}

\* the deploy requests: every deploy body of both users, and alice's deletes
\* of bot 1 and of the bots deployed since
DeployRequests ==
    {Request(u, "deploy", NoBotId, b) : u \in Users, b \in DeployBodies}
    \cup {Request("alice", "delete", id, NoBody) :
            id \in {1} \cup (Len(InitialOwner) + 1 .. nextBotId - 1)}

ReceiveLifecycle(h) == Receive(h, LifecycleRequests, MaxRequests)
ReceiveDeploy(h) == Receive(h, DeployRequests, MaxRequests)

Next ==
    \/ \E h \in Handlers :
        \/ ReceiveLifecycle(h)
        \/ DeployInsert(h)
        \/ DeployCommit(h)
        \/ DeployTail(h)
        \/ StartUpdate(h)
        \/ StartTail(h)
        \/ StopUpdate(h)
        \/ StopTail(h)
        \/ RestartLog(h)
        \/ RestartUpdate(h)
        \/ RestartTail(h)
        \/ DeleteRow(h)
        \/ StatusRead(h)
        \/ StatusUpdate(h)
        \/ StatusRecord(h)
    \/ HbFetch
    \/ HbUpdate
    \/ HbTail
    \/ Tick

Spec == Init /\ [][Next]_vars

NextDeploy ==
    \E h \in Handlers :
        \/ ReceiveDeploy(h)
        \/ DeployInsert(h)
        \/ DeployCommit(h)
        \/ DeployTail(h)
        \/ DeleteRow(h)

SpecDeploy == Init /\ [][NextDeploy]_vars

\* the process is restarted, or the next request is served by another
\* instance: the registry, a Map of the module, is empty again
LoseRegistry ==
    /\ containerStates # <<>>
    /\ containerStates' = <<>>
    /\ UNCHANGED <<store, verified, metrics, handlers, lastReply, hb, issued, failures, nextBotId,
                   nextContainer, now>>

\* the controller with the registry lost at any point
NextRegistry ==
    \/ \E h \in Handlers :
        \/ ReceiveLifecycle(h)
        \/ DeployInsert(h)
        \/ DeployCommit(h)
        \/ DeployTail(h)
        \/ StartUpdate(h)
        \/ StartTail(h)
        \/ StopUpdate(h)
        \/ StopTail(h)
        \/ RestartLog(h)
        \/ RestartUpdate(h)
        \/ RestartTail(h)
        \/ DeleteRow(h)
        \/ StatusRead(h)
        \/ StatusUpdate(h)
        \/ StatusRecord(h)
    \/ LoseRegistry

SpecRegistry == Init /\ [][NextRegistry]_vars

\* the instant of the metrics requests, half past an hour, and the instants
\* of the stored samples: a millisecond before and exactly at the cutoff of the
\* 24 hour window, the last millisecond of an hour and the first of the next,
\* both within the last hour
NowMetrics == 25 * HourMs + HourMs \div 2
SampleTimes == {NowMetrics - 24 * HourMs - 1, NowMetrics - 24 * HourMs,
                25 * HourMs - 1, 25 * HourMs}

\* the resource samples a bot can start with: rows of recordResources or of
\* the sweep, in the order of their insertion
StoredSamples ==
    {[cpu_usage |-> res.cpu, memory_usage |-> res.memory, recorded_at |-> t] :
        res \in Samples, t \in SampleTimes}
Histories(n) ==
    {q \in SeqsUpTo(StoredSamples, n) :
        \A i, j \in DOMAIN q : i < j => q[i].recorded_at <= q[j].recorded_at}

\* the state of Init with a resource history of bots 1, 2 and 3 and the clock
\* a day later
InitMetrics ==
    /\ bots = [b \in InitialBots |->
                 IF b = 2 THEN Assign(NewBotRow(b, "alice", b), Started(InitialStart, 0))
                 ELSE NewBotRow(b, InitialOwner[b],
                                IF InitialOwner[b] = "alice" THEN b ELSE NoContainer)]
    /\ bot_env_vars = [b \in BotIds |-> <<>>]
    /\ bot_logs = [b \in BotIds |-> <<>>]
    /\ \E h1 \in Histories(MaxRows), h2 \in Histories(MaxRows), h3 \in Histories(1) :
          resource_history = [b \in BotIds |->
                                 CASE b = 1 -> h1 [] b = 2 -> h2 [] b = 3 -> h3
                                   [] OTHER -> <<>>]
    /\ containerStates = MapSet(<<>>, 2, Running(InitialStart))
    /\ verified = {"alice"}
    /\ handlers = [h \in Handlers |-> Idle]
    /\ lastReply = NoReply
    /\ hb = HbIdle
    /\ issued = 0
    /\ failures = 0
    /\ nextBotId = Len(InitialOwner) + 1
    /\ nextContainer = 4
    /\ now = NowMetrics
    /\ metrics = MetricsIdle

\* the metrics requests: alice, bob and carol, with no bot id, alice's bot 1
\* and bob's bot 3, with no hours, one hour and hours that are no number
MetricsRequests ==
    {MetricsRequest(u, id, hours) :
        u \in MetricsUsers, id \in {NoBotId, 1, 3}, hours \in {Absent, "1", "abc"}}

GetMetricsAny == GetMetrics(MetricsRequests, MaxMetrics)

NextMetrics ==
    \/ GetMetricsAny
    \/ MetricsHistory
    \/ MetricsStats

SpecMetrics == InitMetrics /\ [][NextMetrics]_vars

\* resource-metrics beside deploys of alice, a start and a delete: the bots
\* and their rows change while a metrics request is in flight
StatsSideRequests ==
    {Request("alice", "deploy", NoBotId, ValidBody),
     Request("alice", "start", 1, NoBody),
     Request("alice", "delete", 2, NoBody)}
StatsRequests ==
    {MetricsRequest("alice", id, Absent) : id \in {NoBotId, 2}}

ReceiveStats(h) == Receive(h, StatsSideRequests, MaxRequests)
GetMetricsStats == GetMetrics(StatsRequests, MaxMetrics)

NextStats ==
    \/ \E h \in Handlers :
        \/ ReceiveStats(h)
        \/ DeployInsert(h)
        \/ DeployCommit(h)
        \/ DeployTail(h)
        \/ StartUpdate(h)
        \/ StartTail(h)
        \/ DeleteRow(h)
    \/ GetMetricsStats
    \/ MetricsHistory
    \/ MetricsStats

SpecStats == Init /\ [][NextStats]_vars

\* the serial requests: every action of alice on her bots 1 and 2, and a deploy
SerialRequests ==
    {Request("alice", a, id, NoBody) : a \in BotActions, id \in {1, 2}}
    \cup {Request("alice", "deploy", NoBotId, ValidBody)}

\* one request or sweep at a time: the next one is received when the last has
\* been answered
AllIdle == \A h \in Handlers : handlers[h].pc = "idle"
ReceiveSerial(h) == AllIdle /\ hb.pc = "idle" /\ Receive(h, SerialRequests, MaxSerial)
HbFetchSerial == AllIdle /\ Fetch(MaxSerial)

NextSerial ==
    \/ \E h \in Handlers :
        \/ ReceiveSerial(h)
        \/ DeployInsert(h)
        \/ DeployCommit(h)
        \/ DeployTail(h)
        \/ StartUpdate(h)
        \/ StartTail(h)
        \/ StopUpdate(h)
        \/ StopTail(h)
        \/ RestartLog(h)
        \/ RestartUpdate(h)
        \/ RestartTail(h)
        \/ DeleteRow(h)
        \/ StatusRead(h)
        \/ StatusUpdate(h)
        \/ StatusRecord(h)
    \/ HbFetchSerial
    \/ HbUpdate
    \/ HbTail

SpecSerial == Init /\ [][NextSerial]_vars

\* ------------------------------------------------------------ the claims
\* steps of bot-manager, told by what they change
Answered == lastReply'.n # lastReply.n
AnsweredAtOnce == Answered /\ issued' # issued
Proceeds(h) == handlers[h].pc = "idle" /\ handlers'[h].pc # "idle"
Owns(u, id) == id \in DOMAIN bots /\ bots[id].user_id = u
MissingField(body) == Falsy(body.name) \/ Falsy(body.platform) \/ Falsy(body.runtime)

\* C1: in every reachable state, whatever the interleaving of deploys and
\* deletes, no user owns more than 3 bot rows.
QuotaUnderConcurrency == \A u \in Users : Cardinality(OwnedBy(u)) <= max_bots

\* C2: a deploy with its required fields by a verified user who owns 3 bots (or
\* more) is answered "Bot limit reached" at once, and bots, bot_env_vars,
\* bot_logs and resource_history are as before.
SequentialQuotaRejection ==
    [][(issued' # issued /\ hb' = hb) =>
         /\ \A h \in Handlers :
               (Proceeds(h) /\ handlers'[h].action = "deploy")
                   => Cardinality(OwnedBy(handlers'[h].user)) < max_bots
         /\ (AnsweredAtOnce /\ lastReply'.action = "deploy" /\ lastReply'.user \in verified
               /\ ~MissingField(lastReply'.body)
               /\ Cardinality(OwnedBy(lastReply'.user)) >= max_bots)
              => (lastReply'.response = BotLimitReached /\ UNCHANGED store)
         /\ (AnsweredAtOnce /\ lastReply'.response = BotLimitReached) => UNCHANGED store]_vars

QuotaRejected ==
    /\ lastReply.response = BotLimitReached
    /\ lastReply.user \in verified
    /\ Cardinality(OwnedBy(lastReply.user)) = max_bots

\* C3: every bot row has 0 <= cpu_usage <= 10 and 0 <= memory_usage <= 50 after
\* any write of deploy, start, stop, restart, status or the sweep; and the
\* storage trigger stores a value above a ceiling as the ceiling, and any
\* other value as it is.
ProbeUsage == {0, 1, CpuCeiling * Scale - 1, CpuCeiling * Scale, CpuCeiling * Scale + 1,
               MemoryCeiling * Scale - 1, MemoryCeiling * Scale, MemoryCeiling * Scale + 1,
               2 * MemoryCeiling * Scale}
Least(a, b) == IF a < b THEN a ELSE b
ClampProperty ==
    /\ \A b \in DOMAIN bots :
          /\ 0 <= bots[b].cpu_usage /\ bots[b].cpu_usage <= CpuCeiling * Scale
          /\ 0 <= bots[b].memory_usage /\ bots[b].memory_usage <= MemoryCeiling * Scale
    /\ \A b \in DOMAIN bots : \A v \in ProbeUsage :
          LET cpu == validate_resource_limits([bots[b] EXCEPT !.cpu_usage = v])
              memory == validate_resource_limits([bots[b] EXCEPT !.memory_usage = v])
          IN /\ cpu = [bots[b] EXCEPT !.cpu_usage = Least(v, CpuCeiling * Scale)]
             /\ memory = [bots[b] EXCEPT !.memory_usage = Least(v, MemoryCeiling * Scale)]

SweptSampleWritten ==
    /\ hb.response # NoResponse
    /\ hb.response.body.botsUpdated = 1
    /\ \E b \in DOMAIN bots :
          /\ bots[b].cpu_usage = simulateCpu(RandDen - 1)
          /\ bots[b].memory_usage = simulateMemory(RandDen - 1)

\* C4: every change of a bot's status follows the lifecycle table: a new row is
\* offline; a change is to online (start from offline, stopped or error; restart
\* from any status) or from online or error to stopped (stop).
LifecycleEdges ==
    {<<from, "online">> : from \in {"offline", "stopped", "error", "deploying"}}
    \cup {<<"online", "stopped">>, <<"error", "stopped">>}
StatusTransitions ==
    [][\A b \in DOMAIN bots' :
          IF b \in DOMAIN bots
          THEN bots'[b].status # bots[b].status
                  => <<bots[b].status, bots'[b].status>> \in LifecycleEdges
          ELSE bots'[b].status = "offline"]_vars

\* C5: start, stop, restart, delete and status of a verified caller, on a bot
\* id that has no row or on a row of another user, are answered with the one
\* AccessDenied response at once, and the store and containerStates are as
\* before; a request that goes on names a row of the caller.
AccessDenialUniform ==
    [][(issued' # issued /\ hb' = hb) =>
         /\ \A h \in Handlers :
               (Proceeds(h) /\ handlers'[h].action \in BotActions)
                   => Owns(handlers'[h].user, handlers'[h].botId)
         /\ (AnsweredAtOnce /\ lastReply'.action \in BotActions /\ lastReply'.user \in verified
               /\ lastReply'.botId # NoBotId /\ ~Owns(lastReply'.user, lastReply'.botId))
              => lastReply'.response = AccessDenied
         /\ (AnsweredAtOnce /\ lastReply'.response = AccessDenied)
              => UNCHANGED <<store, containerStates>>]_vars

DeniedForeignBot ==
    /\ lastReply.response = AccessDenied
    /\ lastReply.botId \in DOMAIN bots
    /\ bots[lastReply.botId].user_id # lastReply.user

\* C6: deploy, start, stop, restart and delete of a caller who is not verified
\* are answered "Email not verified" at once, whatever the body, and the store
\* and containerStates are as before; no request of such a caller goes on.
NotVerifiedFirst ==
    [][(issued' # issued /\ hb' = hb) =>
         /\ \A h \in Handlers : Proceeds(h) => handlers'[h].user \in verified
         /\ (AnsweredAtOnce /\ lastReply'.user \notin verified
               /\ lastReply'.action \in Actions \ {"status"})
              => (lastReply'.response = EmailNotVerified
                  /\ UNCHANGED <<store, containerStates>>)]_vars

NotVerifiedAtQuotaWithoutFields ==
    /\ lastReply.response = EmailNotVerified
    /\ lastReply.action = "deploy"
    /\ MissingField(lastReply.body)
    /\ Cardinality(OwnedBy(lastReply.user)) >= max_bots

\* C7: status of a caller who is not verified, on a bot of that caller, is
\* answered with the bot, not with "Email not verified".
StatusNeedsNoVerification ==
    (lastReply.action = "status" /\ lastReply.user \notin verified
        /\ Owns(lastReply.user, lastReply.botId))
       => (lastReply.response.status = 200 /\ lastReply.response # EmailNotVerified)

\* C8: a deploy of a verified caller whose name, platform or runtime is absent
\* or empty is answered "Missing required fields" at once, whatever the number
\* of bots of the caller, and the store is as before; a deploy that goes on has
\* the three fields.
DeployValidation ==
    [][(issued' # issued /\ hb' = hb) =>
         /\ \A h \in Handlers :
               (Proceeds(h) /\ handlers'[h].action = "deploy")
                   => ~MissingField(handlers'[h].body)
         /\ (AnsweredAtOnce /\ lastReply'.action = "deploy" /\ lastReply'.user \in verified
               /\ MissingField(lastReply'.body))
              => (lastReply'.response = MissingFields
                  /\ UNCHANGED <<store, containerStates>>)]_vars

MissingFieldsAtQuota ==
    /\ lastReply.response = MissingFields
    /\ Cardinality(OwnedBy(lastReply.user)) >= max_bots

\* C9: the step of a deploy that commits the insert adds exactly one bot row,
\* of the caller, offline, with cpu_usage 0, memory_usage 0 and a container_id,
\* and nothing else; the step of a deploy that returns success appends exactly
\* two info entries to the logs of that bot, leaves bots, resource_history and
\* containerStates as they are, and returns the row created.
DeployEffect ==
    [][\A h \in Handlers :
         /\ (At(h, "deploy_commit") /\ handlers'[h].pc = "deploy_tail") =>
               \E b \in DOMAIN bots' \ DOMAIN bots :
                  /\ DOMAIN bots' = DOMAIN bots \cup {b}
                  /\ \A x \in DOMAIN bots : bots'[x] = bots[x]
                  /\ bots'[b].user_id = handlers[h].user
                  /\ bots'[b].status = "offline"
                  /\ bots'[b].cpu_usage = 0 /\ bots'[b].memory_usage = 0
                  /\ bots'[b].container_id # NoContainer
                  /\ handlers'[h].bot = Some(bots'[b])
                  /\ UNCHANGED <<bot_env_vars, bot_logs, resource_history, containerStates>>
         /\ (At(h, "deploy_tail") /\ handlers'[h].pc = "idle"
                /\ lastReply'.response.status = 200) =>
               LET b == handlers[h].botId
               IN /\ lastReply'.response.body = [success |-> TRUE, bot |-> handlers[h].bot]
                  /\ Len(bot_logs'[b]) = Len(bot_logs[b]) + 2
                  /\ \A i \in DOMAIN bot_logs'[b] :
                        IF i <= Len(bot_logs[b]) THEN bot_logs'[b][i] = bot_logs[b][i]
                        ELSE bot_logs'[b][i].level = "info"
                  /\ UNCHANGED <<bots, resource_history, containerStates>>]_vars

\* C10: the step of a deploy that returns success adds to bot_env_vars, for the
\* new bot, each pair of the envVars given whose key and value are both
\* non-empty, as many times as it is given, and no other row.
Count(seq, p) == Cardinality({i \in DOMAIN seq : seq[i] = p})
DeployEnvVars ==
    [][\A h \in Handlers :
         (At(h, "deploy_tail") /\ handlers'[h].pc = "idle"
             /\ lastReply'.response.status = 200) =>
            LET b == handlers[h].botId
                given == IF handlers[h].body.envVars = None THEN <<>>
                         ELSE handlers[h].body.envVars[1]
            IN /\ \A p \in EnvPairs :
                     Count(bot_env_vars'[b], p) =
                        Count(bot_env_vars[b], p)
                        + (IF p.key # "" /\ p.value # "" THEN Count(given, p) ELSE 0)
               /\ \A x \in DOMAIN bot_env_vars \ {b} : bot_env_vars'[x] = bot_env_vars[x]]_vars

\* what the simulator can return: cpu 1.0 to 9.0, memory 5.0 to 40.0, in tenths
SampleRange(res) ==
    /\ 1 * Scale <= res.cpu /\ res.cpu <= 9 * Scale
    /\ 5 * Scale <= res.memory /\ res.memory <= 40 * Scale

\* level of each entry of a sequence of log rows
Levels(entries) == [i \in DOMAIN entries |-> entries[i].level]

\* the row b of bots after the step is the row before with these columns set,
\* and the other rows are as before
RowSet(b, set) ==
    /\ b \in DOMAIN bots
    /\ bots' = [bots EXCEPT ![b] = Assign(bots[b], set)]

\* C11: the step of a start that writes the row sets it to online with the
\* container id generated for this start, which is not the one the row had,
\* last_started_at the time of the write, and the sample of this start, within
\* cpu 1..9 and memory 5..40; the step of a start that returns success appends
\* exactly three log entries (info, info, debug) and exactly one resource sample
\* whose cpu and memory are those of the row.
StartEffect ==
    [][\A h \in Handlers :
         LET req == handlers[h]
             b == handlers[h].botId
         IN /\ (At(h, "start_update") /\ handlers'[h].pc = "start_tail") =>
                  /\ RowSet(b, [status |-> "online", container_id |-> req.containerId,
                                last_started_at |-> now, cpu_usage |-> req.resources.cpu,
                                memory_usage |-> req.resources.memory])
                  /\ req.containerId # bots[b].container_id
                  /\ now # NoTime
                  /\ SampleRange(req.resources)
            /\ (At(h, "start_tail") /\ handlers'[h].pc = "idle"
                   /\ lastReply'.response.status = 200) =>
                  /\ Len(bot_logs'[b]) = Len(bot_logs[b]) + 3
                  /\ SubSeq(bot_logs'[b], 1, Len(bot_logs[b])) = bot_logs[b]
                  /\ Levels(SubSeq(bot_logs'[b], Len(bot_logs[b]) + 1, Len(bot_logs'[b])))
                        = <<"info", "info", "debug">>
                  /\ Len(resource_history'[b]) = Len(resource_history[b]) + 1
                  /\ SubSeq(resource_history'[b], 1, Len(resource_history[b]))
                        = resource_history[b]
                  /\ b \in DOMAIN bots
                  /\ resource_history'[b][Len(resource_history'[b])].cpu_usage
                        = bots[b].cpu_usage
                  /\ resource_history'[b][Len(resource_history'[b])].memory_usage
                        = bots[b].memory_usage
                  /\ UNCHANGED bots]_vars

\* the last request answered is a stop of bot b that returned success
StopSucceeded(b) ==
    /\ lastReply.action = "stop"
    /\ lastReply.botId = b
    /\ lastReply.response = Success([success |-> TRUE, status |-> "stopped"])

\* C12: with one request at a time, a status of a bot received next after a
\* successful stop of that bot is answered with the row, whose status is
\* stopped and whose cpu_usage and memory_usage are 0, and neither step of that
\* status changes a table or containerStates.
StopThenStatus ==
    [][\A h \in Handlers :
         /\ (Proceeds(h) /\ handlers'[h].action = "status"
                /\ StopSucceeded(handlers'[h].botId))
               => UNCHANGED <<store, containerStates>>
         /\ (At(h, "status_read") /\ handlers'[h] # handlers[h]
                /\ StopSucceeded(handlers[h].botId)) =>
               LET b == handlers[h].botId
               IN /\ handlers'[h].pc = "idle"
                  /\ b \in DOMAIN bots
                  /\ lastReply'.response = Success([success |-> TRUE, bot |-> Some(bots[b])])
                  /\ bots[b].status = "stopped"
                  /\ bots[b].cpu_usage = 0 /\ bots[b].memory_usage = 0
                  /\ UNCHANGED <<store, containerStates>>]_vars

StatusAfterStopOfRunningBot ==
    /\ lastReply.n = 2
    /\ lastReply.action = "status"
    /\ lastReply.botId = 2
    /\ lastReply.response.status = 200
    /\ lastReply.response.body.bot # None
    /\ lastReply.response.body.bot[1].status = "stopped"
    /\ lastReply.response.body.bot[1].cpu_usage = 0

\* C13: with one request at a time, a stop of a bot received next after a
\* successful stop of that bot goes on to its row write, which leaves the row
\* with status stopped, cpu_usage 0 and memory_usage 0 as it was, and is
\* answered with success unless that write fails; when it returns success it
\* has appended exactly two info log entries.
StopTwice ==
    [][\A h \in Handlers :
         LET b == handlers[h].botId
         IN /\ (At(h, "stop_update") /\ handlers'[h] # handlers[h] /\ StopSucceeded(b)) =>
                  /\ handlers'[h].pc = "stop_tail" \/ failures' > failures
                  /\ b \in DOMAIN bots
                  /\ bots[b].status = "stopped"
                  /\ bots[b].cpu_usage = 0 /\ bots[b].memory_usage = 0
                  /\ UNCHANGED bots
            /\ (At(h, "stop_tail") /\ handlers'[h].pc = "idle" /\ StopSucceeded(b)
                   /\ lastReply'.response.status = 200) =>
                  /\ lastReply'.response = Success([success |-> TRUE, status |-> "stopped"])
                  /\ Len(bot_logs'[b]) = Len(bot_logs[b]) + 2
                  /\ SubSeq(bot_logs'[b], 1, Len(bot_logs[b])) = bot_logs[b]
                  /\ Levels(SubSeq(bot_logs'[b], Len(bot_logs[b]) + 1, Len(bot_logs'[b])))
                        = <<"info", "info">>
                  /\ UNCHANGED bots]_vars

\* C14: a restart none of whose writes fails first appends the info entry "Restarting bot..."; its row
\* write sets the row to online with the container id generated for this
\* restart, last_started_at the time of the write and the sample of this
\* restart; and the step that returns success appends the entries a start
\* appends (info, info, debug) and exactly one resource sample, and leaves the
\* registry with a record for the bot that holds the new container id.
RestartEffect ==
    [][\A h \in Handlers :
         LET req == handlers[h]
             b == handlers[h].botId
         IN /\ (At(h, "restart_log") /\ handlers'[h].pc = "restart_update"
                   /\ failures' = failures) =>
                  bot_logs'[b] = Append(bot_logs[b], Log("info", "Restarting bot..."))
            /\ (At(h, "restart_update") /\ handlers'[h].pc = "restart_tail") =>
                  /\ RowSet(b, [status |-> "online", container_id |-> req.containerId,
                                last_started_at |-> now, cpu_usage |-> req.resources.cpu,
                                memory_usage |-> req.resources.memory])
                  /\ req.containerId # bots[b].container_id
                  /\ SampleRange(req.resources)
            /\ (At(h, "restart_tail") /\ handlers'[h].pc = "idle"
                   /\ lastReply'.response.status = 200 /\ failures' = failures) =>
                  /\ Len(bot_logs'[b]) = Len(bot_logs[b]) + 3
                  /\ Levels(SubSeq(bot_logs'[b], Len(bot_logs[b]) + 1, Len(bot_logs'[b])))
                        = <<"info", "info", "debug">>
                  /\ Len(resource_history'[b]) = Len(resource_history[b]) + 1
                  /\ b \in DOMAIN containerStates'
                  /\ containerStates'[b].containerId = req.containerId]_vars

\* the effects a restart does have when no write fails: the restarting entry,
\* the row write, two info entries and one resource sample, the registry as
\* it was
RestartAsCoded ==
    [][\A h \in Handlers :
         LET req == handlers[h]
             b == handlers[h].botId
         IN /\ (At(h, "restart_log") /\ handlers'[h].pc = "restart_update"
                   /\ failures' = failures) =>
                  bot_logs'[b] = Append(bot_logs[b], Log("info", "Restarting bot..."))
            /\ (At(h, "restart_update") /\ handlers'[h].pc = "restart_tail") =>
                  /\ RowSet(b, [status |-> "online", container_id |-> req.containerId,
                                last_started_at |-> now, cpu_usage |-> req.resources.cpu,
                                memory_usage |-> req.resources.memory])
                  /\ req.containerId # bots[b].container_id
                  /\ SampleRange(req.resources)
            /\ (At(h, "restart_tail") /\ handlers'[h].pc = "idle" /\ failures' = failures) =>
                  /\ Len(bot_logs'[b]) = Len(bot_logs[b]) + 2
                  /\ Levels(SubSeq(bot_logs'[b], Len(bot_logs[b]) + 1, Len(bot_logs'[b])))
                        = <<"info", "info">>
                  /\ Len(resource_history'[b]) = Len(resource_history[b]) + 1
                  /\ UNCHANGED containerStates]_vars

\* the columns of a bot row that a status must leave alone
Lifecycle(row) ==
    [status |-> row.status, container_id |-> row.container_id,
     last_started_at |-> row.last_started_at]

\* what a step of a status is to do, as C15 states it
StatusStep ==
    \A h \in Handlers :
         LET req == handlers[h]
             b == handlers[h].botId
             row == SelectOwnBot(req.user, b)
         IN /\ (req.action = "status" /\ handlers'[h] # req) =>
                  /\ DOMAIN bots' = DOMAIN bots
                  /\ \A x \in DOMAIN bots : Lifecycle(bots'[x]) = Lifecycle(bots[x])
                  /\ UNCHANGED <<bot_logs, bot_env_vars, containerStates>>
            /\ (At(h, "status_read") /\ handlers'[h] # req) =>
                  IF row # None /\ row[1].status = "online"
                  THEN handlers'[h].pc = "status_update" /\ UNCHANGED store
                  ELSE /\ lastReply'.response = Success([success |-> TRUE, bot |-> row])
                       /\ UNCHANGED store
            /\ (At(h, "status_update") /\ handlers'[h] # req) =>
                  /\ RowSet(b, [cpu_usage |-> req.resources.cpu,
                                memory_usage |-> req.resources.memory])
                  /\ SampleRange(req.resources)
                  /\ UNCHANGED resource_history
            /\ (At(h, "status_record") /\ handlers'[h] # req) =>
                  /\ lastReply'.response =
                        Success([success |-> TRUE,
                                 bot |-> Some([req.bot[1] EXCEPT
                                                  !.cpu_usage = req.resources.cpu,
                                                  !.memory_usage = req.resources.memory])])
                  /\ Len(resource_history'[b]) = Len(resource_history[b]) + 1
                  /\ SubSeq(resource_history'[b], 1, Len(resource_history[b]))
                        = resource_history[b]
                  /\ resource_history'[b][Len(resource_history'[b])].cpu_usage
                        = req.resources.cpu
                  /\ resource_history'[b][Len(resource_history'[b])].memory_usage
                        = req.resources.memory
                  /\ UNCHANGED bots

\* C15: no step of a status changes the status, container id or last_started_at
\* of a row, or the logs.  When the row read is online, its write sets the
\* row's cpu_usage and memory_usage to one sample of the simulator, and its
\* last step appends exactly one resource sample with those values and returns
\* the row read with those values; when the row read is not online, it writes
\* nothing and returns the row as stored.
StatusOperation == [][StatusStep]_vars

\* the same for the steps in which no write fails
StatusOperationWrites == [][failures' = failures => StatusStep]_vars

\* what the step of a delete that returns success is to leave, as C16 states it
DeleteStep ==
    \A h \in Handlers :
       LET b == handlers[h].botId
       IN (At(h, "delete_row") /\ handlers'[h].pc = "idle"
              /\ lastReply'.response.status = 200) =>
             /\ b \notin DOMAIN bots'
             /\ bot_env_vars'[b] = <<>>
             /\ bot_logs'[b] = <<>>
             /\ resource_history'[b] = <<>>
             /\ b \notin DOMAIN containerStates'
             /\ DOMAIN bots' = DOMAIN bots \ {b}
             /\ \A x \in DOMAIN bots' : bots'[x] = bots[x]
             /\ \A x \in DOMAIN bot_env_vars \ {b} :
                   /\ bot_env_vars'[x] = bot_env_vars[x]
                   /\ bot_logs'[x] = bot_logs[x]
                   /\ resource_history'[x] = resource_history[x]

\* C16: when a delete of a bot returns success, the bot row and the env-var,
\* log and resource-sample rows of that bot are gone, the registry holds no
\* record for the bot, and the rows of the other bots are as they were.
DeleteCascade == [][DeleteStep]_vars

\* the bots whose status is online
Online == {b \in DOMAIN bots : bots[b].status = "online"}

\* the ids a sweep read, in the order it visits them
Targets == [k \in DOMAIN hb.runningBots |-> hb.runningBots[k].id]

\* what the steps of a sweep are to do, as C17 states it: the bots it visits
\* are the online bots, each once; the update of a bot either fails, changing
\* nothing, or rewrites cpu_usage, memory_usage and uptime_seconds; after an
\* update that did not fail exactly one resource sample is appended; after the
\* last bot the sweep answers with the number of online bots less those whose
\* update failed
SweepStep ==
    /\ hb.pc # "idle" =>
          /\ hb.i \in DOMAIN Targets
          /\ \A j, k \in DOMAIN Targets : Targets[j] = Targets[k] => j = k
          /\ {Targets[k] : k \in DOMAIN Targets} = Online
          /\ hb.failed \subseteq {Targets[k] : k \in 1..hb.i}
    /\ (hb.pc = "idle" /\ hb' # hb) =>
          \/ hb'.pc = "update" /\ hb'.i = 1 /\ hb'.failed = {}
          \/ Online = {} /\ hb'.response.status = 200 /\ hb'.response.body.botsUpdated = 0
    /\ (hb.pc = "update" /\ hb' # hb) =>
          LET b == Targets[hb.i]
          IN /\ hb'.pc = "tail" /\ hb'.i = hb.i
             /\ \/ /\ failures' > failures
                   /\ hb'.failed = hb.failed \cup {b}
                   /\ UNCHANGED store
                \/ /\ failures' = failures
                   /\ hb'.failed = hb.failed
                   /\ RowSet(b, [cpu_usage |-> hb'.cur.cpu, memory_usage |-> hb'.cur.memory,
                                 uptime_seconds |-> hb'.uptime])
                   /\ SampleRange(hb'.cur)
                   /\ UNCHANGED resource_history
    /\ (hb.pc = "tail" /\ hb' # hb /\ failures' = failures) =>
          LET b == Targets[hb.i]
          IN /\ UNCHANGED bots
             /\ \A x \in DOMAIN resource_history \ {b} :
                   resource_history'[x] = resource_history[x]
             /\ IF b \in hb.failed
                THEN resource_history'[b] = resource_history[b]
                ELSE /\ Len(resource_history'[b]) = Len(resource_history[b]) + 1
                     /\ SubSeq(resource_history'[b], 1, Len(resource_history[b]))
                           = resource_history[b]
                     /\ resource_history'[b][Len(resource_history'[b])].cpu_usage
                           = bots[b].cpu_usage
                     /\ resource_history'[b][Len(resource_history'[b])].memory_usage
                           = bots[b].memory_usage
             /\ IF hb.i = Len(Targets)
                THEN /\ hb'.pc = "idle"
                     /\ hb'.response.status = 200
                     /\ hb'.response.body.success
                     /\ hb'.response.body.botsUpdated
                           = Cardinality(Online) - Cardinality(hb.failed)
                ELSE hb'.pc = "update" /\ hb'.i = hb.i + 1 /\ hb'.failed = hb.failed

\* C17: in a sweep that runs with no controller operation beside it and in
\* which only row updates fail, every online bot is visited exactly once and
\* the sweep answers; a bot whose update did not fail has cpu_usage,
\* memory_usage and uptime_seconds rewritten and exactly one resource sample
\* appended; and botsUpdated is the number of online bots less the number of
\* bots whose update failed.
SweepToleratesFailure == [][SweepStep]_vars

\* a sweep over two online bots answered botsUpdated 1 after one failed update
SweepWithOneFailedUpdate ==
    /\ hb.pc = "idle"
    /\ hb.response.status = 200
    /\ Cardinality(Online) = 2
    /\ hb.response.body.botsUpdated = 1

\* C18: the step of a sweep that follows a failed row update of a bot appends
\* nothing for that bot, neither a resource sample nor a log entry.
FailingBotSkipped ==
    [][(hb.pc = "tail" /\ hb' # hb /\ ~hb.updated) =>
          LET b == Targets[hb.i]
          IN /\ resource_history'[b] = resource_history[b]
             /\ bot_logs'[b] = bot_logs[b]]_vars

\* the part of it that the loop does keep: no resource sample after a failed
\* row update
FailingBotGetsNoSample ==
    [][(hb.pc = "tail" /\ hb' # hb /\ ~hb.updated) => UNCHANGED resource_history]_vars

\* C19: a step of a sweep that changes a bot row, or appends a resource sample
\* or a log entry for a bot, does so for a bot whose row is online in the state
\* in which the step is taken.
SweepWritesOnlineOnly ==
    [][(hb.pc \in {"update", "tail"} /\ hb' # hb
           /\ <<bots, resource_history, bot_logs>>' # <<bots, resource_history, bot_logs>>) =>
          Targets[hb.i] \in Online]_vars

ReturnsSuccess(h) ==
    /\ handlers'[h] # handlers[h]
    /\ lastReply'.n # lastReply.n
    /\ lastReply'.response.status = 200

\* C21: a step of a controller operation in which a write to the store fails
\* does not return success to the caller.
SurfacesFailedWrites ==
    [][\A h \in Handlers :
         (handlers'[h] # handlers[h] /\ failures' > failures) => ~ReturnsSuccess(h)]_vars

\* the writes whose failure the controller does surface: the bot row insert of
\* deploy, the row update of start, stop and restart, the row delete of delete
RowWriteSurfaced ==
    [][\A h \in Handlers :
         (handlers[h].pc \in {"deploy_insert", "start_update", "stop_update",
                              "restart_update", "delete_row"}
             /\ handlers'[h] # handlers[h] /\ failures' > failures) =>
            /\ lastReply'.n # lastReply.n
            /\ lastReply'.response.status >= 400
            /\ UNCHANGED store]_vars

\* the rows of p are the first rows of q, unchanged and in the same order
IsPrefix(p, q) == Len(p) <= Len(q) /\ SubSeq(q, 1, Len(p)) = p

\* C25: in every step the log entries and the resource samples a bot had are
\* still there afterwards, unchanged and in the same order, unless the step
\* deletes the bot row.
AppendOnly ==
    [][\A b \in DOMAIN bot_logs :
         \/ b \in DOMAIN bots /\ b \notin DOMAIN bots'
         \/ /\ IsPrefix(bot_logs[b], bot_logs'[b])
            /\ IsPrefix(resource_history[b], resource_history'[b])]_vars

\* a bot has more log entries and more samples than any bot started with
LogsAndSamplesGrew ==
    /\ lastReply.n >= 1
    /\ \E b \in DOMAIN bots :
          /\ Len(bot_logs[b]) > 5
          /\ Len(resource_history[b]) > 1

\* the request handler h works on in this step: the one in progress, or the
\* one it receives
Serving(h) ==
    IF handlers[h].pc # "idle" THEN handlers[h]
    ELSE IF handlers'[h].pc # "idle" THEN handlers'[h]
    ELSE [action |-> lastReply'.action, botId |-> lastReply'.botId]

\* the next step of an operation in progress: the code after its await
Resume(h) ==
    \/ StartUpdate(h) \/ StartTail(h)
    \/ StopUpdate(h) \/ StopTail(h)
    \/ RestartLog(h) \/ RestartUpdate(h) \/ RestartTail(h)
    \/ DeleteRow(h)
    \/ StatusRead(h) \/ StatusUpdate(h) \/ StatusRecord(h)

\* everything the store and the registry hold for bot b
PerBot(b) ==
    [row |-> IF b \in DOMAIN bots THEN Some(bots[b]) ELSE None,
     env |-> bot_env_vars[b], logs |-> bot_logs[b], samples |-> resource_history[b],
     record |-> IF b \in DOMAIN containerStates THEN Some(containerStates[b]) ELSE None]

\* a step of start, stop, restart, delete or status on bot A leaves the row,
\* env vars, logs, samples and registry record of every other bot, and the
\* operations in progress in the other handlers, as they were
OtherBotsUntouched ==
    \A h \in Handlers :
       (handlers'[h] # handlers[h] /\ Serving(h).action \in BotActions) =>
          /\ \A b \in DOMAIN bot_logs \ {Serving(h).botId} : PerBot(b)' = PerBot(b)
          /\ \A g \in Handlers \ {h} : handlers'[g] = handlers[g]

\* an operation in progress on a bot can take its next step whatever the other
\* handlers are doing
NeverDisabled ==
    \A h \in Handlers :
       (handlers[h].pc # "idle" /\ handlers[h].action \in BotActions) => ENABLED Resume(h)

\* C26: a step of start, stop, restart, delete or status on a bot never changes
\* another bot's row, env vars, logs, resource samples or registry record, nor
\* the operation in progress on another bot, and an operation in progress is
\* never disabled by the others; so the steps of operations on distinct bots
\* commute and every interleaving leaves each bot as the serial run does.
OperationsIndependent == [][OtherBotsUntouched]_vars /\ []NeverDisabled

\* two operations are in progress on two different bots, one of which has
\* written its row
TwoBotsInProgress ==
    /\ handlers["h1"].pc \in {"start_tail", "stop_tail", "restart_tail"}
    /\ handlers["h2"].pc # "idle"
    /\ handlers["h2"].action \in BotActions
    /\ handlers["h1"].botId # handlers["h2"].botId

\* handler h, serving action a on bot b, takes the step that writes the row
Writes(h, a, b) ==
    /\ handlers[h].action = a
    /\ handlers[h].botId = b
    /\ handlers[h].pc \in {"start_update", "stop_update", "restart_update"}
    /\ handlers'[h].pc \in {"start_tail", "stop_tail", "restart_tail"}

\* the row of bot b is changed by a start or restart, which makes it online
\* with the unit id and the sample of that one request, or by a stop, which
\* makes it stopped with cpu_usage 0 and memory_usage 0, each in one write
WholeWrite(b) ==
    \/ \E h \in Handlers, a \in {"start", "restart"} :
          /\ Writes(h, a, b)
          /\ bots'[b] = [bots[b] EXCEPT !.status = "online",
                                        !.container_id = handlers[h].containerId,
                                        !.last_started_at = now,
                                        !.cpu_usage = handlers[h].resources.cpu,
                                        !.memory_usage = handlers[h].resources.memory]
          /\ SampleRange(handlers[h].resources)
    \/ \E h \in Handlers :
          /\ Writes(h, "stop", b)
          /\ bots'[b] = [bots[b] EXCEPT !.status = "stopped", !.cpu_usage = 0,
                                        !.memory_usage = 0]

\* the step is one of a status or of a sweep
StatusOrSweepStep ==
    \/ hb' # hb
    \/ \E h \in Handlers : handlers[h].action = "status" /\ handlers'[h] # handlers[h]

\* C27: every step that changes the row of a bot and is not a step of a status
\* or of a sweep is the single row write of one start, stop or restart, and
\* leaves the row either online with that request's unit id and sample or
\* stopped with cpu_usage 0 and memory_usage 0; so with start, stop and restart
\* alone in flight the row is wholly the last writer's.
LastWriterWins ==
    [][\A b \in DOMAIN bots :
         (b \in DOMAIN bots' /\ bots'[b] # bots[b] /\ ~StatusOrSweepStep) => WholeWrite(b)]_vars

\* a start and a stop of the same bot are both past their row write, the
\* start having written last
StartWroteAfterStop ==
    /\ handlers["h1"].pc = "start_tail"
    /\ handlers["h2"].pc = "stop_tail"
    /\ handlers["h1"].botId = handlers["h2"].botId
    /\ handlers["h1"].botId \in DOMAIN bots
    /\ bots[handlers["h1"].botId].status = "online"
    /\ bots[handlers["h1"].botId].container_id = handlers["h1"].containerId
    /\ bots[handlers["h1"].botId].cpu_usage = handlers["h1"].resources.cpu
    /\ bots[handlers["h1"].botId].memory_usage = handlers["h1"].resources.memory

\* what a step writes and answers, given by the request and the rows alone:
\* a row changes by the whole write of one start, stop or restart or by the
\* sample of a status; a status resamples exactly when the row it read is
\* online; start and restart answer with the unit id and sample of the
\* request, stop with stopped; the loss of the registry changes nothing else
RegistryBlind ==
    /\ \A b \in DOMAIN bots :
          (b \in DOMAIN bots' /\ bots'[b] # bots[b] /\ ~StatusOrSweepStep) => WholeWrite(b)
    /\ \A h \in Handlers :
          LET req == handlers[h]
              row == SelectOwnBot(req.user, req.botId)
          IN /\ (At(h, "status_read") /\ handlers'[h] # req) =>
                   IF row # None /\ row[1].status = "online"
                   THEN handlers'[h].pc = "status_update" /\ handlers'[h].bot = row
                   ELSE lastReply'.response = Success([success |-> TRUE, bot |-> row])
             /\ (ReturnsSuccess(h) /\ req.action \in {"start", "restart"}) =>
                   lastReply'.response = Success([success |-> TRUE, status |-> "online",
                                                  containerId |-> req.containerId,
                                                  resources |-> req.resources])
             /\ (ReturnsSuccess(h) /\ req.action = "stop") =>
                   lastReply'.response = Success([success |-> TRUE, status |-> "stopped"])
             /\ (ReturnsSuccess(h) /\ req.action = "status" /\ req.pc = "status_record") =>
                   lastReply'.response =
                      Success([success |-> TRUE,
                               bot |-> Some(Assign(req.bot[1], Resampled(req.resources)))])
    /\ containerStates' # containerStates =>
          \/ UNCHANGED <<store, handlers, lastReply>>
          \/ /\ UNCHANGED store
             /\ \E h \in Handlers :
                   /\ Proceeds(h)
                   /\ handlers'[h].action \in {"start", "stop", "delete"}
                   /\ verifyBotOwnership(handlers'[h].user, handlers'[h].botId)

\* C28: with the registry lost at arbitrary points, every row write and every
\* response of the controller is still the one the request and the rows give:
\* no step reads the registry, and a change of the registry comes with no
\* change of the store.
RegistryNeverAuthoritative == [][RegistryBlind]_vars

\* a status has resampled and returned an online row of which the registry
\* holds no record
OnlineWithoutRecord ==
    /\ lastReply.action = "status"
    /\ lastReply.response.status = 200
    /\ lastReply.response.body.bot # None
    /\ lastReply.response.body.bot[1].status = "online"
    /\ lastReply.botId \notin DOMAIN containerStates

\* bot b had a row and its delete has committed
Deleted(b) == b \in 1..(nextBotId - 1) /\ b \notin DOMAIN bots

\* C29: a bot whose delete has committed has no row ever again, and a start,
\* stop, restart, delete or status of a verified caller that is received with
\* its id afterwards is answered AccessDenied at once and changes nothing.
DeletedStayDeleted ==
    [][/\ \A b \in DOMAIN bot_logs : Deleted(b) => Deleted(b)'
       /\ nextBotId' >= nextBotId
       /\ \A h \in Handlers :
             (Proceeds(h) /\ handlers'[h].action \in BotActions)
                => ~Deleted(handlers'[h].botId)
       /\ (AnsweredAtOnce /\ lastReply'.action \in BotActions
              /\ lastReply'.user \in verified /\ Deleted(lastReply'.botId)) =>
             /\ lastReply'.response = AccessDenied
             /\ UNCHANGED <<store, containerStates>>]_vars

\* the second delete of a deleted bot has been answered AccessDenied
SecondDeleteDenied ==
    /\ lastReply.n = 2
    /\ lastReply.action = "delete"
    /\ lastReply.user \in verified
    /\ Deleted(lastReply.botId)
    /\ lastReply.response = AccessDenied

\* C30: a bot row whose status is stopped or offline has cpu_usage 0 and
\* memory_usage 0.
IdleBotsReportNoUsage ==
    \A b \in DOMAIN bots :
       bots[b].status \in {"stopped", "offline"} =>
          bots[b].cpu_usage = 0 /\ bots[b].memory_usage = 0

\* the last resource-metrics request has been answered
MetricsAnswered == metrics.pc = "idle" /\ metrics.n > 0

\* C22: a metrics request of a caller who owns no bot, with or without a bot
\* id, is answered with a success result that holds chartData, the empty list,
\* and stats whose totalBots, runningBots, totalCpu and totalMemory are 0.
NoBotsMetrics ==
    (MetricsAnswered /\ VisibleBots(metrics.user) = {}) =>
       LET body == metrics.response.body
       IN /\ metrics.response.status = 200
          /\ {"chartData", "stats"} \subseteq DOMAIN body
          /\ body.chartData = <<>>
          /\ body.stats.totalBots = 0
          /\ body.stats.runningBots = 0
          /\ body.stats.totalCpu = 0
          /\ body.stats.totalMemory = 0

\* what such a caller does get: success with the one field metrics, the empty
\* list, whatever the bot id and the hours
NoBotsMetricsAsCoded ==
    (MetricsAnswered /\ VisibleBots(metrics.user) = {}) =>
       metrics.response = Success([success |-> TRUE, metrics |-> <<>>])

\* the bots a metrics request selects: the bot named, or all of the caller's
Selected ==
    IF metrics.botId # NoBotId THEN {metrics.botId} \cap VisibleBots(metrics.user)
    ELSE VisibleBots(metrics.user)

\* the window of the request in hours: 24 unless hours are given
Window == IF metrics.hours = "1" THEN 1 ELSE 24

\* the stored samples of the selected bots recorded at or after now minus the
\* window, as pairs of bot id and row number
InWindow ==
    {p \in Selected \X (1..(MaxRows + MaxRequests)) :
        /\ p[2] \in DOMAIN resource_history[p[1]]
        /\ resource_history[p[1]][p[2]].recorded_at >= now - Window * HourMs}

\* the UTC hour of a stored sample, counted from the epoch
UtcHour(p) == resource_history[p[1]][p[2]].recorded_at \div HourMs

\* the k-th of the hours that hold a sample of InWindow, in ascending order
KthHour(k) ==
    CHOOSE h \in {UtcHour(p) : p \in InWindow} :
       Cardinality({g \in {UtcHour(p) : p \in InWindow} : g < h}) = k - 1

\* the sum of a column over a set of stored samples
RECURSIVE SumOf(_, _)
SumOf(samples, column) ==
    IF samples = {} THEN 0
    ELSE LET p == CHOOSE q \in samples : TRUE
         IN resource_history[p[1]][p[2]][column] + SumOf(samples \ {p}, column)

\* value, in tenths, is the mean of the column over the samples rounded to
\* one decimal place
IsRoundedMean(value, samples, column) ==
    LET count == Cardinality(samples)
        twice == 2 * (count * value - SumOf(samples, column))
    IN -count <= twice /\ twice <= count

\* chart has exactly one point for each hour that holds a sample of InWindow,
\* in ascending order of the hours, with the rounded means of that hour's
\* samples of InWindow
Bucketed(chart) ==
    /\ Len(chart) = Cardinality({UtcHour(p) : p \in InWindow})
    /\ \A k \in DOMAIN chart :
          LET bucket == {p \in InWindow : UtcHour(p) = KthHour(k)}
          IN /\ chart[k].time = KthHour(k) % 24
             /\ IsRoundedMean(chart[k].cpu, bucket, "cpu_usage")
             /\ IsRoundedMean(chart[k].memory, bucket, "memory_usage")

\* C23: the chart data getMetrics computes and returns has exactly one point
\* for each UTC hour holding a sample of the selected bots recorded at or after
\* now minus the window, the points in ascending order of the hours, each with
\* the means of cpu and memory of that hour's samples rounded to one decimal;
\* older samples and samples of other bots do not contribute.
MetricsBucketing ==
    /\ metrics.pc = "stats" => Bucketed(metrics.chartData)
    /\ (MetricsAnswered /\ metrics.response.status = 200
           /\ "chartData" \in DOMAIN metrics.response.body) =>
          Bucketed(metrics.response.body.chartData)

\* a chart of two points returned to alice for all her bots: three samples of
\* her two bots share an hour, their mean is not a whole number of tenths, and
\* a sample of bob's bot 3 recorded in that hour is left out
TwoBucketsThreeSamples ==
    /\ MetricsAnswered
    /\ metrics.response.status = 200
    /\ metrics.user = "alice"
    /\ metrics.botId = NoBotId
    /\ "chartData" \in DOMAIN metrics.response.body
    /\ Len(metrics.response.body.chartData) = 2
    /\ \E k \in {1, 2} :
          /\ Cardinality({p \in InWindow : UtcHour(p) = KthHour(k)}) = 3
          /\ SumOf({p \in InWindow : UtcHour(p) = KthHour(k)}, "cpu_usage") % 3 # 0
          /\ \E i \in DOMAIN resource_history[3] :
                /\ <<3, i>> \notin InWindow
                /\ UtcHour(<<3, i>>) = KthHour(k)

\* the sum of a column over the current rows of a set of bots
RECURSIVE SumRows(_, _)
SumRows(ids, column) ==
    IF ids = {} THEN 0
    ELSE LET b == CHOOSE i \in ids : TRUE
         IN bots[b][column] + SumRows(ids \ {b}, column)

\* the stats of an answer are those of the rows the selected bots have when
\* the rows are read, with the fixed policy numbers
StatsOfCurrentRows(stats, current) ==
    /\ stats.totalBots = Cardinality(current)
    /\ stats.runningBots = Cardinality({b \in current : bots[b].status = "online"})
    /\ stats.totalCpu = SumRows(current, "cpu_usage")
    /\ stats.totalMemory = SumRows(current, "memory_usage")
    /\ stats.maxBots = 3
    /\ stats.maxCpuPerBot = 10
    /\ stats.maxMemoryPerBot = 50
    /\ stats.runningBots <= stats.totalBots

StatsStep ==
    (metrics.pc = "stats" /\ metrics'.pc = "idle") =>
        /\ StatsOfCurrentRows(metrics'.response.body.stats,
                              metrics.botIds \cap DOMAIN bots)
        /\ metrics'.response.body.stats.totalBots
              <= metrics'.response.body.stats.maxBots

\* C24: in every getMetrics result for a user with at least one bot, totalBots
\* is the number of current rows of the selected bots, runningBots the number of
\* those online, totalCpu and totalMemory the sums of their current cpu_usage
\* and memory_usage, maxBots, maxCpuPerBot and maxMemoryPerBot are 3, 10 and 50,
\* nothing depends on the resource history, and runningBots <= totalBots <=
\* maxBots.
MetricsStatsCurrent == [][StatsStep]_vars

\* the stats as the code computes them: all of the above but totalBots <=
\* maxBots
StatsAsCoded ==
    [][(metrics.pc = "stats" /\ metrics'.pc = "idle") =>
          StatsOfCurrentRows(metrics'.response.body.stats,
                             metrics.botIds \cap DOMAIN bots)]_vars

\* C31: a bot row whose status is online has cpu_usage within 1..9 and
\* memory_usage within 5..40, under every interleaving of controller operations
\* and sweeps.
RunningBotsCarrySample ==
    \A b \in DOMAIN bots :
       bots[b].status = "online" =>
          SampleRange([cpu |-> bots[b].cpu_usage, memory |-> bots[b].memory_usage])

\* bot 1, started by a request, is online with the greatest sample while a
\* sweep that has just written the row of bot 2, online too, is under way
StartedAndSwept ==
    /\ {1, 2} \subseteq DOMAIN bots
    /\ bots[1].status = "online"
    /\ bots[1].cpu_usage = 9 * Scale
    /\ bots[1].memory_usage = 40 * Scale
    /\ Len(bot_logs[1]) >= 5
    /\ bots[2].status = "online"
    /\ hb.pc = "tail"
    /\ hb.updated
    /\ hb.runningBots[hb.i].id = 2

\* CREATE TYPE public.bot_status AS ENUM
bot_status == {"online", "offline", "deploying", "error", "stopped"}

\* C32: every bot row has status offline, online or stopped; deploying and
\* error, although values of the status type, are never stored, so that a
\* restart never passes through deploying.
ThreeStatusesStored ==
    \A b \in DOMAIN bots :
       /\ bots[b].status \in bot_status
       /\ bots[b].status \notin {"deploying", "error"}

\* a restart of bot 1 between its row write and its response, the row being
\* online, while bot 2 has been stopped and bob's bots are offline
RestartWroteOnline ==
    /\ \E h \in Handlers :
          /\ At(h, "restart_tail")
          /\ handlers[h].botId = 1
    /\ {1, 2, 3} \subseteq DOMAIN bots
    /\ bots[1].status = "online"
    /\ bots[2].status = "stopped"
    /\ bots[3].status = "offline"

\* the registry holds a record for bot b exactly if the row of b exists and is
\* online, and the record's unit id is that of the row
Mirrored(b) ==
    /\ b \in DOMAIN containerStates <=> (b \in DOMAIN bots /\ bots[b].status = "online")
    /\ b \in DOMAIN containerStates =>
          containerStates[b].containerId = bots[b].container_id

\* no request or sweep is in progress and no write has failed
Quiescent == AllIdle /\ hb.pc = "idle" /\ failures = 0

\* bot b has been restarted: its log holds the entry a restart begins with
Restarted(b) ==
    \E i \in DOMAIN bot_logs[b] : bot_logs[b][i] = Log("info", "Restarting bot...")

\* C33: with requests served one at a time and no failed write, after any
\* sequence of deploy, start, stop, restart, delete and status the registry
\* holds a record for a bot if and only if the bot's row exists with status
\* online, and the record's unit id is the row's.
RegistryMirrorsRows == Quiescent => \A b \in BotIds : Mirrored(b)

\* the registry mirrors the rows of the bots that have not been restarted
RegistryMirrorsUnlessRestarted ==
    Quiescent => \A b \in BotIds : ~Restarted(b) => Mirrored(b)

\* handler h returns, in this step, the error of its row write
RowWriteFailed(h) ==
    /\ handlers[h].pc \in {"start_update", "stop_update", "restart_update", "delete_row"}
    /\ handlers'[h].pc = "idle"
    /\ lastReply'.n = lastReply.n + 1
    /\ lastReply'.response.status = 500

\* C34: when start, stop, restart or delete returns an error because its row
\* write failed, the store and the registry are as they were before the call.
\* Stated for start, whose unit id is generated by the call and so is in no
\* record before it: after the error no record of the registry carries it.
FailedOperationChangesNothing ==
    [][\A h \in Handlers :
          (RowWriteFailed(h) /\ handlers[h].action = "start") =>
             \A b \in DOMAIN containerStates' :
                containerStates'[b].containerId # handlers[h].containerId]_vars

\* the step that returns the error of the row write changes neither the store
\* nor the registry
FailedWriteStepChangesNothing ==
    [][\A h \in Handlers : RowWriteFailed(h) => UNCHANGED <<store, containerStates>>]_vars

\* handler h, serving a start, stop or restart, sends its row write in this
\* step, gets no error and goes on to the rest of the operation, which ends
\* with the success result
RowWriteAccepted(h) ==
    \/ At(h, "start_update") /\ handlers'[h].pc = "start_tail"
    \/ At(h, "stop_update") /\ handlers'[h].pc = "stop_tail"
    \/ At(h, "restart_update") /\ handlers'[h].pc = "restart_tail"

\* C35: a start, stop or restart returns success only if its row write changed
\* an existing row: when the bot has been deleted between the operation's
\* ownership check and its row write, the operation does not go on to success;
\* and the registry holds no record for a bot whose row no longer exists once
\* the operations on it are over.
NoSuccessForVanishedBot ==
    /\ [][\A h \in Handlers : RowWriteAccepted(h) => handlers[h].botId \in DOMAIN bots]_vars
    /\ [](AllIdle => \A b \in DOMAIN containerStates : b \in DOMAIN bots)

\* the row write of a start, stop or restart that finds its row
RowWriteFindsRow ==
    [][\A h \in Handlers :
          (RowWriteAccepted(h) /\ handlers[h].botId \in DOMAIN bots) =>
             /\ bots'[handlers[h].botId] # bots[handlers[h].botId]
                  \/ handlers[h].action = "stop"
             /\ bots'[handlers[h].botId].status =
                  (IF handlers[h].action = "stop" THEN "stopped" ELSE "online")]_vars

\* C36: every bot_env_vars, bot_logs and resource_history row refers to a bot
\* row that exists, also when a delete of the bot interleaves with a start,
\* restart, status or sweep on the same bot: an insert that arrives after the
\* delete creates no row.
ReferentialIntegrity ==
    \A b \in BotIds :
       b \notin DOMAIN bots =>
          /\ bot_env_vars[b] = <<>>
          /\ bot_logs[b] = <<>>
          /\ resource_history[b] = <<>>

\* a start of a bot has returned success after a delete of the bot committed:
\* its three log inserts and its sample insert arrived after the delete
InsertsAfterDelete ==
    /\ lastReply.action = "start"
    /\ lastReply.response.status = 200
    /\ Deleted(lastReply.botId)
    /\ AllIdle

\* the step of a sweep that ends the loop body of a bot counts the bot: it
\* pushes an entry on updates, whose length is the count reported
Counts ==
    /\ hb.pc = "tail"
    /\ hb' # hb
    /\ IF hb'.pc = "idle"
       THEN hb'.response.body.botsUpdated = Len(hb.updates) + 1
       ELSE Len(hb'.updates) = Len(hb.updates) + 1

\* C37: the count a sweep reports is the number of bots for which the sweep
\* changed an existing row and appended a resource sample, also when the bot is
\* deleted, or its sample insert fails, between the sweep's read of the online
\* bots and its write: a bot is counted only if its row exists and a sample is
\* appended for it, and a bot for which a sample is appended is counted.
UpdatedCountExact ==
    [][(hb.pc = "tail" /\ hb' # hb) =>
          LET b == Targets[hb.i]
          IN Counts <=> (/\ b \in DOMAIN bots
                         /\ Len(resource_history'[b]) = Len(resource_history[b]) + 1)]_vars

\* the count as the code computes it: a bot is counted exactly if its row
\* update returned no error
CountsAcceptedUpdates ==
    [][(hb.pc = "tail" /\ hb' # hb) => (Counts <=> hb.updated)]_vars

\* the bots of the caller that the last metrics request selects
OwnSelected ==
    IF metrics.botId # NoBotId THEN {metrics.botId} \cap OwnedBy(metrics.user)
    ELSE OwnedBy(metrics.user)

\* the samples of those bots recorded within the window of the request
OwnSamples ==
    {p \in OwnSelected \X (1..(MaxRows + MaxRequests)) :
        /\ p[2] \in DOMAIN resource_history[p[1]]
        /\ resource_history[p[1]][p[2]].recorded_at >= now - Window * HourMs}

\* the k-th hour, in ascending order, of a set of stored samples
KthHourOf(samples, k) ==
    CHOOSE h \in {UtcHour(p) : p \in samples} :
       Cardinality({g \in {UtcHour(p) : p \in samples} : g < h}) = k - 1

\* the chart of a set of stored samples
ChartOf(samples) ==
    [k \in 1..Cardinality({UtcHour(p) : p \in samples}) |->
        LET bucket == {p \in samples : UtcHour(p) = KthHourOf(samples, k)}
        IN [time |-> KthHourOf(samples, k) % 24,
            cpu |-> MathRound(SumOf(bucket, "cpu_usage"), Cardinality(bucket)),
            memory |-> MathRound(SumOf(bucket, "memory_usage"), Cardinality(bucket))]]

\* the result of the last metrics request as a function of the request and of
\* the rows and samples of the caller's own bots, and of nothing else
OwnResult ==
    IF OwnedBy(metrics.user) = {}
    THEN Success([success |-> TRUE, metrics |-> <<>>])
    ELSE IF metrics.botId # NoBotId /\ metrics.botId \notin OwnedBy(metrics.user)
    THEN AccessDenied
    ELSE IF metrics.hours \notin {Absent, "1"}
    THEN StorageError(500, "Internal server error")
    ELSE Success([success |-> TRUE,
                  chartData |-> ChartOf(OwnSamples),
                  stats |-> [totalBots |-> Cardinality(OwnSelected),
                             runningBots |->
                                Cardinality({b \in OwnSelected : bots[b].status = "online"}),
                             totalCpu |-> SumRows(OwnSelected, "cpu_usage"),
                             totalMemory |-> SumRows(OwnSelected, "memory_usage"),
                             maxBots |-> 3, maxCpuPerBot |-> 10, maxMemoryPerBot |-> 50],
                  bots |-> {bots[b] : b \in OwnSelected}])

\* C38: for any caller and any bot id filter, the chartData, stats and bots
\* getMetrics returns are computed from the bots the caller owns and their
\* samples only; a filter naming a bot the caller does not own yields neither
\* that bot's samples nor its row; and the result is the same whatever bots
\* and samples other users have.
MetricsIsolation ==
    MetricsAnswered =>
       /\ metrics.response = OwnResult
       /\ "bots" \in DOMAIN metrics.response.body =>
             \A row \in metrics.response.body.bots : row.user_id = metrics.user
       /\ (metrics.botId # NoBotId /\ metrics.botId \notin OwnedBy(metrics.user)) =>
             {"chartData", "stats", "bots"} \cap DOMAIN metrics.response.body = {}

\* alice asks for the metrics of bob's bot 3, which has a sample within the
\* window, and is denied
ForeignFilterDenied ==
    /\ MetricsAnswered
    /\ metrics.user = "alice"
    /\ metrics.botId = 3
    /\ bots[3].user_id = "bob"
    /\ \E i \in DOMAIN resource_history[3] :
          resource_history[3][i].recorded_at >= now - Window * HourMs
    /\ metrics.response = AccessDenied

====
